---- MODULE Spec2Model ----
(***************************************************************************)
(* A model of the batch runner of QuickStatements 3: Batch.run and the     *)
(* operations on a batch (confirm, stop, restart, rerun) from              *)
(* src/core/models.py and the web views, with the remote Wikibase API as    *)
(* a nondeterministic environment; and of the scheduler of                  *)
(* src/core/management/commands/send_batches.py: its recovery at start-up,  *)
(* its loop and its threads.                                                *)
(***************************************************************************)
EXTENDS Integers, Sequences, FiniteSets, TLC

VARIABLES
    batch,      \* the stored Batch row: status, message, block_on_errors, combine_commands
    cmd,        \* the stored BatchCommand rows, by index (1..Len(cmd))
    parsed,     \* the commands of the batch as they were parsed (never changes)
    typing,     \* environment: what the remote answers when command i's value types are verified
    run,        \* the Batch.run() invocation in progress: its position and its local variables
    writes,     \* history: the number of remote writes command i has issued so far
    accepted,   \* history: how many of the writes of command i the remote has accepted
    last_create,\* history: the create command the current run met last, and what became of it
    budget,     \* how many stop and rerun requests may still arrive
    crashes,    \* how many times the scheduler's process has died so far
    store,      \* scheduler: the owner and the stored status of every batch
    handle,     \* scheduler: the position of the loop of Command.handle, and its users
    user_threads, \* scheduler: handle's user_threads, the thread started last for each owner
    threads,    \* scheduler: every thread started so far
    patching,   \* an entity document and the command update_entity_json applied to it last
    parsing     \* a quantity as the parser was given it, and what the parser returned

\* the variables of the scheduler's loop and of its threads
scheduler == <<store, handle, user_threads, threads>>

\* the variables of the pure functions followed on their own
functions == <<patching, parsing>>

\* the variables of a batch and of its run
runner == <<batch, cmd, parsed, typing, run, writes, accepted, last_create, budget, crashes>>

vars == <<runner, scheduler, functions>>

----------------------------------------------------------------------------
(* Bounds of the model *)

\* the longest batch whose whole life (confirm, run, stop, restart, rerun) is explored
MaxCmds == 3
\* the longest batch whose runs alone are explored
MaxRunCmds == 4
\* the most commands of a batch whose value types the remote does not accept as given
MaxFaulty == 1
\* the most stop and rerun requests the owner sends
MaxRequests == 1
\* the longest batch explored with a scheduler whose process dies and starts again
MaxRecoveryCmds == 2
\* the most times the scheduler's process dies
MaxCrashes == 1
\* the longest batch explored with commands verified before the run
MaxVerifiedCmds == 3
\* the batches of the model of the scheduler
MaxBatches == 3
\* the most threads the scheduler starts
MaxThreads == 3

----------------------------------------------------------------------------
(* Values *)

NONE == "NONE"
LAST == "LAST"
EMPTY_ITEM == "EMPTY_ITEM"

\* the ids the remote store gives to the items it creates; the item created by the
\* write of command i gets ItemIds[i].  The ids a batch names itself (Q1) are those of
\* items that exist before the batch runs
ItemIds == <<"Q11", "Q12", "Q13", "Q14", "Q15", "Q16">>

\* Batch.STATUS_CHOICES
BatchStatuses == {"Stopped", "Blocked", "Preview", "Initial", "Running", "Done"}

\* BatchCommand.STATUS_CHOICES
CommandStatuses == {"Error", "Initial", "Running", "Done"}

\* BatchCommand.operation_is_combinable: the operations that work on the entity's json
CombinableOperations ==
    {"create_item", "set_statement", "create_statement", "remove_statement_by_value",
     "remove_qualifier", "remove_reference", "add_alias", "set_label", "set_description",
     "set_sitelink", "remove_alias", "remove_label", "remove_description", "remove_sitelink"}

\* the operations whose local mutation of the entity document can raise
RaisingOperations == {"remove_statement_by_value", "remove_qualifier", "remove_reference"}

\* A parsed command as BatchFactory.load_from_parser stores it
NewCommand(op, act, ent) ==
    [operation |-> op, action |-> act, entity |-> ent, status |-> "Initial",
     error |-> NONE, message |-> NONE, response_id |-> NONE,
     value_type_verified |-> FALSE]

\* the commands a batch is made of in this model, each with the remote's answer
\* to the verification of its value types
Programs ==
    { <<NewCommand("create_item", "CREATE", NONE), "match">>,
      <<NewCommand("set_statement", "ADD", LAST), "match">>,
      <<NewCommand("set_statement", "ADD", LAST), "mismatch">>,
      <<NewCommand("set_statement", "ADD", LAST), "noprop">>,
      <<NewCommand("set_statement", "ADD", "Q1"), "unknown">>,
      <<NewCommand("remove_statement_by_value", "REMOVE", "Q1"), "match">>,
      <<NewCommand("remove_statement_by_id", "REMOVE", NONE), "match">> }

\* the answers of the remote API to one command: the entity read fails, the write is
\* rejected as a user error or as a server error, or all calls succeed
NetOutcomes == {"ok", "read_fail", "user_error", "server_error"}

\* the result of the local mutation of the entity document
MutOutcomes == {"ok", "no_statements_property"}

\* the owners of batches in the model of the scheduler
Users == {"u1", "u2"}

\* the result of resolving the owner's write access: there is no token, the request
\* for the profile is answered unauthorized or with a server error, or the profile
\* arrives and has the autoconfirmed group or not; or it arrives, has the group, and
\* reports the owner as blocked
AuthOutcomes ==
    {"ok", "no_token", "unauthorized", "server_error", "not_autoconfirmed", "owner_blocked"}

IdleRun ==
    [pc |-> "idle", status |-> NONE, message |-> NONE, queue |-> <<>>,
     last_id |-> NONE, commands |-> <<>>, entity |-> NONE]

----------------------------------------------------------------------------
(* Batch predicates *)

\* variant: a guard that only keeps previews out
is_not_preview(s) == s # "Preview"

is_initial_or_running(s) == s = "Initial" \/ s = "Running"

\* variant: the run never sees a stop
is_never_stopped(s) == FALSE

is_stopped(s) == s = "Stopped"

\* variant: no batch counts as done
is_never_done(s) == FALSE

is_done(s) == s = "Done"

has_pending_commands(cs) == \E i \in DOMAIN cs : cs[i].status # "Done"

\* variant: a done batch is rerun whatever its commands
is_done_only(s, cs) == is_done(s)

is_done_and_has_pending(s, cs) == is_done(s) /\ has_pending_commands(cs)

----------------------------------------------------------------------------
(* BatchCommand predicates and helpers *)

is_add_statement(c) == c.action = "ADD" /\ c.operation \in {"set_statement", "create_statement"}

is_error_status(c) == c.status = "Error"

\* variant: a create may close a group
is_any_operation(c) == TRUE

is_not_create_item(c) == c.operation # "create_item"

is_id_last_or_create_item(c) == c.entity = LAST \/ c.operation = "create_item"

operation_is_combinable(c) == c.operation \in CombinableOperations

\* variant: only equal ids combine
has_same_id_as(c, n) == c.entity = n.entity

has_combinable_id_with(c, n) ==
    (c.operation = "create_item" /\ n.entity = LAST) \/ (c.entity = n.entity)

\* variant: the batch's combine_commands is not consulted
check_combination_always(cs, i, up, combine) ==
    /\ operation_is_combinable(cs[i])
    /\ up # 0
    /\ operation_is_combinable(cs[up])
    /\ cs[up].operation # "create_item"
    /\ (cs[i].operation = "create_item" /\ cs[up].entity = LAST) \/ (cs[i].entity = cs[up].entity)

\* BatchCommand.check_combination: _can_combine_with_next, for the next command's
\* index up (0 when there is none)
check_combination(cs, i, up, combine) ==
    /\ combine
    /\ operation_is_combinable(cs[i])
    /\ up # 0
    /\ operation_is_combinable(cs[up])
    /\ is_not_create_item(cs[up])
    /\ has_combinable_id_with(cs[i], cs[up])

\* variant: the flag of an earlier verification is not consulted
should_verify_always(c) == is_add_statement(c)

should_verify_value_types(c) == ~c.value_type_verified /\ is_add_statement(c)

\* variant: the run's last id is stored on every command, on LAST or not
update_last_id_always(c, last_id) ==
    IF last_id # NONE THEN [c EXCEPT !.entity = last_id] ELSE c

\* BatchCommand.update_last_id
update_last_id(c, last_id) ==
    IF c.entity = LAST /\ last_id # NONE THEN [c EXCEPT !.entity = last_id] ELSE c

SeqToSet(s) == {s[k] : k \in DOMAIN s}

\* variant: the status alone is propagated
propagate_status_only(cs, i, prev) ==
    [j \in DOMAIN cs |->
        IF j \in SeqToSet(prev) THEN [cs[j] EXCEPT !.status = cs[i].status] ELSE cs[j]]

\* BatchCommand.propagate_to_previous_commands of command i, whose previous_commands
\* are prev
propagate_to_previous_commands(cs, i, prev) ==
    [j \in DOMAIN cs |->
        IF j \in SeqToSet(prev)
        THEN IF is_error_status(cs[i])
             THEN [cs[j] EXCEPT !.status = cs[i].status, !.error = "combining_failed",
                                !.message = "combining_failed"]
             ELSE IF is_id_last_or_create_item(cs[j])
                  THEN [cs[j] EXCEPT !.status = cs[i].status, !.entity = cs[i].entity]
                  ELSE [cs[j] EXCEPT !.status = cs[i].status]
        ELSE cs[j]]

----------------------------------------------------------------------------
(* The entity document a command works on.  A document is named by the id  *)
(* of its entity, or EMPTY_ITEM for the empty item of a create.  A     *)
(* result is the document, or the tag of the exception raised.            *)

Document(e) == [tag |-> "ok", entity |-> e]

Raised(t) == [tag |-> t, entity |-> NONE]

\* Client.get_entity
get_entity(id, net) ==
    IF net = "read_fail" THEN Raised("api_server_error") ELSE Document(id)

\* variant: LAST is read like any id
get_entity_or_empty_item_unguarded(c, net) ==
    IF c.operation = "create_item" THEN Document(EMPTY_ITEM) ELSE get_entity(c.entity, net)

get_entity_or_empty_item(c, net) ==
    IF c.operation = "create_item" THEN Document(EMPTY_ITEM)
    ELSE IF c.entity = LAST THEN Raised("last_not_evaluated")
    ELSE get_entity(c.entity, net)

get_previous_entity_json(c, cached, net) ==
    IF cached # NONE THEN Document(cached) ELSE get_entity_or_empty_item(c, net)

update_entity_json(c, doc, mut) ==
    IF doc.tag # "ok" THEN doc
    ELSE IF c.operation \in RaisingOperations /\ mut # "ok" THEN Raised(mut)
    ELSE doc

get_final_entity_json(c, cached, net, mut) ==
    update_entity_json(c, get_previous_entity_json(c, cached, net), mut)

entity_patch(c, cached, net, mut) ==
    LET original == get_entity(c.entity, net)
    IN  IF original.tag # "ok" THEN original
        ELSE get_final_entity_json(c, IF cached = NONE THEN original.entity ELSE cached, net, mut)

api_payload(c, cached, net, mut) ==
    IF c.operation = "create_item" THEN Document(EMPTY_ITEM)
    ELSE IF operation_is_combinable(c)
         THEN IF is_id_last_or_create_item(c)
              THEN get_final_entity_json(c, cached, net, mut)
              ELSE entity_patch(c, cached, net, mut)
         ELSE Document(NONE)

operation_method_and_endpoint(c) ==
    IF operation_is_combinable(c)
    THEN IF is_id_last_or_create_item(c) THEN "POST" ELSE "PATCH"
    ELSE IF c.operation = "remove_statement_by_id" THEN "DELETE" ELSE NONE

\* variant: a rejected write raises an exception outside the mapped ones
wikibase_request_wrapper_unmapped(c, i, method, net) ==
    IF net \in {"user_error", "server_error"}
    THEN [tag |-> "exception", response_id |-> c.response_id]
    ELSE [tag |-> "ok",
          response_id |-> IF method = "POST" THEN ItemIds[i]
                          ELSE IF method = "PATCH" THEN c.entity
                          ELSE c.response_id]

\* Client.wikibase_request_wrapper for a write, and the id in its response: the id
\* of the created item, the id of the patched entity, none for a deletion
wikibase_request_wrapper(c, i, method, net) ==
    IF net = "user_error" THEN [tag |-> "api_user_error", response_id |-> c.response_id]
    ELSE IF net = "server_error" THEN [tag |-> "api_server_error", response_id |-> c.response_id]
    ELSE [tag |-> "ok",
          response_id |-> IF method = "POST" THEN ItemIds[i]
                          ELSE IF method = "PATCH" THEN c.entity
                          ELSE c.response_id]

\* BatchCommand.send_to_api, with the assignment of response_id that follows it:
\* the tag, whether the write was issued, and the response id
send_to_api(c, i, cached, net, mut) ==
    IF c.operation = "create_property"
    THEN [tag |-> "op_not_implemented", wrote |-> FALSE, response_id |-> c.response_id]
    ELSE LET method == operation_method_and_endpoint(c)
             body == api_payload(c, cached, net, mut)
         IN  IF method = NONE
             THEN [tag |-> "exception", wrote |-> FALSE, response_id |-> c.response_id]
             ELSE IF body.tag # "ok"
             THEN [tag |-> body.tag, wrote |-> FALSE, response_id |-> c.response_id]
             ELSE LET r == wikibase_request_wrapper(c, i, method, net)
                  IN  [tag |-> r.tag, wrote |-> TRUE, response_id |-> r.response_id]

----------------------------------------------------------------------------
(* BatchCommand.run *)

\* variant: the failure is stored without a message
error_without_message(cs, i, prev, message) ==
    propagate_to_previous_commands([cs EXCEPT ![i].status = "Error"], i, prev)

\* BatchCommand.error_with_message of command i, with the propagation to its
\* previous commands
error_with_message(cs, i, prev, message) ==
    propagate_to_previous_commands(
        [cs EXCEPT ![i].status = "Error", ![i].message = message], i, prev)

\* error_with_value / error_with_exception of command i; an exception outside the
\* mapped ones leaves the tag alone.  The message is the label of the tag or the
\* message of the exception, named here by the tag
error_with_value(cs, i, prev, tag) ==
    error_with_message([cs EXCEPT ![i].error = IF tag = "exception" THEN @ ELSE tag],
                       i, prev, tag)

\* variant: the response id is stored on the previous commands too
finish_command_sharing_id(cs, i, prev, rid) ==
    [j \in DOMAIN cs |->
        IF j = i \/ j \in SeqToSet(prev)
        THEN [cs[j] EXCEPT !.status = "Done", !.response_id = rid,
                           !.entity = IF is_id_last_or_create_item(cs[j]) THEN rid ELSE @]
        ELSE cs[j]]

\* BatchCommand.finish of command i with the response id rid
finish_command(cs, i, prev, rid) ==
    LET done == [cs EXCEPT ![i].status = "Done",
                           ![i].response_id = rid,
                           ![i].entity = IF is_id_last_or_create_item(cs[i]) THEN rid ELSE @]
    IN  propagate_to_previous_commands(done, i, prev)

\* the value types of command c at execution time, typ being the remote's answer
verify_value_types(c, typ) ==
    IF should_verify_value_types(c) /\ typ # "match" THEN "exception" ELSE "ok"

\* BatchCommand.run of command i; prev and cached are the previous_commands and the
\* previous_entity_json check_combination gave it, ccn its _can_combine_with_next.
\* The result: the commands afterwards, whether a remote write was issued, and the
\* command's final_combining_state
CommandRun(cs, i, prev, cached, ccn, typ, net, mut) ==
    LET empty(rows) == [cs |-> rows, wrote |-> FALSE, commands |-> <<>>, entity |-> NONE]
    IN  IF cs[i].status = "Error" THEN empty(propagate_to_previous_commands(cs, i, prev))
        ELSE IF cs[i].status # "Initial" THEN empty(cs)
        ELSE IF verify_value_types(cs[i], typ) # "ok"
        THEN empty(error_with_value(cs, i, prev, "exception"))
        ELSE LET started == [cs EXCEPT ![i].status = "Running",
                                       ![i].value_type_verified = TRUE]
             IN  IF ccn
                 THEN LET doc == get_final_entity_json(started[i], cached, net, mut)
                      IN  IF doc.tag = "ok"
                          THEN [cs |-> started, wrote |-> FALSE,
                                commands |-> <<i>> \o prev, entity |-> doc.entity]
                          ELSE empty(error_with_value(started, i, prev, doc.tag))
                 ELSE LET r == send_to_api(started[i], i, cached, net, mut)
                      IN  IF r.tag = "ok"
                          THEN [cs |-> finish_command(started, i, prev, r.response_id),
                                wrote |-> r.wrote, commands |-> <<>>, entity |-> NONE]
                          ELSE [cs |-> error_with_value(started, i, prev, r.tag),
                                wrote |-> r.wrote, commands |-> <<>>, entity |-> NONE]

----------------------------------------------------------------------------
(* Batch.run: the verification of the value types before the execution *)

\* variant: nothing is verified before the execution
verify_nothing(cs, ty, i, block) == [cs |-> cs, outcome |-> "ok", index |-> 0]

RECURSIVE verify_loop(_, _, _, _)
\* the loop over the commands not verified yet, from index i on: the commands
\* afterwards, and whether the loop ended, blocked the batch or let an exception out
verify_loop(cs, ty, i, block) ==
    IF i > Len(cs) THEN [cs |-> cs, outcome |-> "ok", index |-> 0]
    ELSE IF cs[i].value_type_verified THEN verify_loop(cs, ty, i + 1, block)
    ELSE IF should_verify_value_types(cs[i]) /\ ty[i] = "mismatch"
    THEN LET failed == error_with_message(cs, i, <<>>, "exception")
         IN  IF block THEN [cs |-> failed, outcome |-> "blocked", index |-> i]
             ELSE verify_loop(failed, ty, i + 1, block)
    ELSE IF should_verify_value_types(cs[i]) /\ ty[i] = "noprop"
    THEN IF block THEN [cs |-> cs, outcome |-> "blocked", index |-> i]
         ELSE verify_loop(cs, ty, i + 1, block)
    ELSE IF should_verify_value_types(cs[i]) /\ ty[i] = "unknown"
    THEN [cs |-> cs, outcome |-> "raised", index |-> i]
    ELSE verify_loop([cs EXCEPT ![i].value_type_verified = TRUE], ty, i + 1, block)

\* the commands the execution loop iterates over: those not Done, by index
RECURSIVE pending_from(_, _)
pending_from(cs, i) ==
    IF i > Len(cs) THEN <<>>
    ELSE IF cs[i].status # "Done" THEN <<i>> \o pending_from(cs, i + 1)
    ELSE pending_from(cs, i + 1)

\* history: what the run knows of its last create command after command i ran
LastCreateAfter(cs, after, i, lc) ==
    LET succeeded == {j \in DOMAIN cs : cs[j].operation = "create_item"
                                         /\ cs[j].status # "Done" /\ after[j].status = "Done"}
        failed == {j \in DOMAIN cs : cs[j].operation = "create_item"
                                      /\ cs[j].status # "Error" /\ after[j].status = "Error"}
    IN  IF succeeded # {} THEN [index |-> CHOOSE j \in succeeded : TRUE, outcome |-> "ok"]
        ELSE IF failed # {} THEN [index |-> CHOOSE j \in failed : TRUE, outcome |-> "error"]
        ELSE IF cs[i].operation = "create_item"
             THEN [index |-> i,
                   outcome |-> IF after[i].status = "Error" THEN "error" ELSE "pending"]
             ELSE lc

NoCreate == [index |-> 0, outcome |-> "none"]

----------------------------------------------------------------------------
(* BatchCommand.update_entity_json on the statements of one property of an   *)
(* entity document                                                            *)

\* how many commands are applied to one document
MaxApplications == 2

StatementValues == {"a", "b"}
QualifierValues == {"q1", "q2"}
PartValues == {"r1", "r2"}
Ranks == {"preferred"}

\* a statement of the document: "qualifiers" and "references" are read with a
\* default of [], a missing "rank" is NONE
Statement(value, qualifiers, references, rank) ==
    [value |-> value, qualifiers |-> qualifiers, references |-> references, rank |-> rank]

\* the command's json: its value, its qualifiers, its references (each a list of
\* parts) and its rank
PatchCommand(operation, value, qualifiers, references, rank) ==
    [operation |-> operation, value |-> value, qualifiers |-> qualifiers,
     references |-> references, rank |-> rank]

\* the commands that add: a statement value with at most one qualifier, at most
\* one reference of one or two parts, and possibly a rank
AddingCommands ==
    {PatchCommand(op, v, quals, refs, rank) :
        op \in {"set_statement", "create_statement"},
        v \in StatementValues,
        quals \in {<<>>, <<"q1">>},
        refs \in {<<>>, << <<"r1">> >>, << <<"r1", "r2">> >>},
        rank \in Ranks \cup {NONE}}

\* the commands that remove: a statement by its value, or qualifiers and
\* reference parts of the statement with that value
RemovingCommands ==
    {PatchCommand("remove_statement_by_value", v, <<>>, <<>>, NONE) : v \in StatementValues}
    \cup {PatchCommand("remove_qualifier", v, quals, refs, NONE) :
            v \in StatementValues,
            quals \in {<<"q1">>, <<"q2">>, <<"q2", "q1">>},
            refs \in {<<>>, << <<"r1">> >>}}
    \cup {PatchCommand("remove_reference", v, quals, refs, NONE) :
            v \in StatementValues,
            quals \in {<<>>, <<"q1">>},
            refs \in {<< <<"r1">> >>, << <<"r2">> >>}}

PatchCommands == AddingCommands \cup RemovingCommands

\* entity["statements"] read at the command's property: whether the key is there,
\* and the list under it
NoProperty == [present |-> FALSE, statements |-> <<>>]

\* the documents a command may meet: the property missing, the property with an
\* empty list, one statement with two qualifiers and two references, and three
\* statements of which two have the same value
InitialDocuments ==
    {NoProperty,
     [present |-> TRUE, statements |-> <<>>],
     [present |-> TRUE,
      statements |-> <<Statement("a", <<"q1", "q2">>, << <<"r1", "r2">>, <<"r2">> >>, "preferred")>>],
     [present |-> TRUE,
      statements |-> <<Statement("a", <<>>, <<>>, NONE),
                       Statement("b", <<"q1">>, << <<"r1">> >>, NONE),
                       Statement("a", <<"q1">>, << <<"r1">> >>, NONE)>>]}

\* enumerate() up to the first of the positions that the test of the loop accepts;
\* 0 when the loop ends without one
first_index(hits) ==
    IF hits = {} THEN 0 ELSE CHOOSE i \in hits : \A j \in hits : i <= j

\* list.pop(i)
pop(s, i) == SubSeq(s, 1, i - 1) \o SubSeq(s, i + 1, Len(s))

has_value(c, st) == st.value = c.value

is_in_qualifiers(c, qualifier) == qualifier \in SeqToSet(c.qualifiers)

is_part_in_references(c, part) ==
    \E r \in DOMAIN c.references : part \in SeqToSet(c.references[r])

\* _get_statement: setdefault puts the property's key into the document, then the
\* first statement with the command's value is returned (0: None)
get_statement(entity, c) ==
    [entity |-> [entity EXCEPT !.present = TRUE],
     index |-> first_index({i \in DOMAIN entity.statements : has_value(c, entity.statements[i])})]

\* update_statement: the command's qualifiers and references are added at the end
\* of the statement's, and its rank, when it has one, replaces the statement's
update_statement(st, c) ==
    [st EXCEPT !.qualifiers = @ \o c.qualifiers,
               !.references = @ \o c.references,
               !.rank = IF c.rank # NONE THEN c.rank ELSE @]

\* _update_entity_statements that looks for the statement whatever the operation
update_entity_statements_always_set(entity, c) ==
    LET found == get_statement(entity, c)
    IN IF found.index = 0
       THEN [entity |-> [present |-> TRUE,
                         statements |-> Append(entity.statements,
                                               update_statement(Statement(c.value, <<>>, <<>>, NONE), c))],
             raised |-> "ok"]
       ELSE [entity |-> [found.entity EXCEPT !.statements[found.index] = update_statement(@, c)],
             raised |-> "ok"]

\* _update_entity_statements: set_statement writes on the statement it finds; a
\* create_statement, and a set_statement that finds none, appends dict() and writes
\* on that
update_entity_statements(entity, c) ==
    LET found == IF c.operation = "set_statement"
                 THEN get_statement(entity, c)
                 ELSE [entity |-> entity, index |-> 0]
    IN IF c.operation = "create_statement" \/ found.index = 0
       THEN [entity |-> [present |-> TRUE,
                         statements |-> Append(entity.statements,
                                               update_statement(Statement(c.value, <<>>, <<>>, NONE), c))],
             raised |-> "ok"]
       ELSE [entity |-> [found.entity EXCEPT !.statements[found.index] = update_statement(@, c)],
             raised |-> "ok"]

\* _remove_qualifier_or_reference that goes on after its first removal
remove_every_qualifier_or_reference(entity, c) ==
    LET found == get_statement(entity, c)
        st == IF found.index = 0 THEN Statement(NONE, <<>>, <<>>, NONE)
              ELSE entity.statements[found.index]
        q == first_index({i \in DOMAIN st.qualifiers : is_in_qualifiers(c, st.qualifiers[i])})
        ref == first_index({i \in DOMAIN st.references :
                              \E j \in DOMAIN st.references[i] :
                                  is_part_in_references(c, st.references[i][j])})
        patched == [st EXCEPT
                       !.qualifiers = SelectSeq(@, LAMBDA x : ~is_in_qualifiers(c, x)),
                       !.references = [i \in DOMAIN @ |->
                                         SelectSeq(@[i], LAMBDA p : ~is_part_in_references(c, p))]]
    IN [entity |-> IF found.index = 0 THEN found.entity
                   ELSE [found.entity EXCEPT !.statements[found.index] = patched],
        raised |-> IF q = 0 /\ Len(c.qualifiers) > 0 THEN "NoQualifiers"
                   ELSE IF ref = 0 /\ Len(c.references) > 0 THEN "NoReferenceParts"
                   ELSE "ok"]

\* _remove_qualifier_or_reference: on the statement with the command's value ({}
\* when there is none) the first qualifier of the command is popped, and the first
\* part of the command in the first reference that has one; the exceptions are
\* raised after that, on the document as the pops left it
remove_qualifier_or_reference(entity, c) ==
    LET found == get_statement(entity, c)
        st == IF found.index = 0 THEN Statement(NONE, <<>>, <<>>, NONE)
              ELSE entity.statements[found.index]
        q == first_index({i \in DOMAIN st.qualifiers : is_in_qualifiers(c, st.qualifiers[i])})
        ref == first_index({i \in DOMAIN st.references :
                              \E j \in DOMAIN st.references[i] :
                                  is_part_in_references(c, st.references[i][j])})
        part == IF ref = 0 THEN 0
                ELSE first_index({j \in DOMAIN st.references[ref] :
                                    is_part_in_references(c, st.references[ref][j])})
        patched == [st EXCEPT
                       !.qualifiers = IF q = 0 THEN @ ELSE pop(@, q),
                       !.references = IF ref = 0 THEN @
                                      ELSE [@ EXCEPT ![ref] = pop(@, part)]]
    IN [entity |-> IF found.index = 0 THEN found.entity
                   ELSE [found.entity EXCEPT !.statements[found.index] = patched],
        raised |-> IF q = 0 /\ Len(c.qualifiers) > 0 THEN "NoQualifiers"
                   ELSE IF ref = 0 /\ Len(c.references) > 0 THEN "NoReferenceParts"
                   ELSE "ok"]

\* _remove_entity_statement that pops the last statement with the value
remove_last_entity_statement(entity, c) ==
    LET hits == {i \in DOMAIN entity.statements : has_value(c, entity.statements[i])}
    IN IF Len(entity.statements) = 0
       THEN [entity |-> entity, raised |-> "NoStatementsForThatProperty"]
       ELSE IF hits = {}
       THEN [entity |-> entity, raised |-> "NoStatementsWithThatValue"]
       ELSE [entity |-> [entity EXCEPT !.statements =
                            pop(@, CHOOSE i \in hits : \A j \in hits : j <= i)],
             raised |-> "ok"]

\* _remove_entity_statement: reads the list with get(), so that the document is
\* not touched before an exception; pops the first statement with the value
remove_entity_statement(entity, c) ==
    LET at == first_index({i \in DOMAIN entity.statements : has_value(c, entity.statements[i])})
    IN IF Len(entity.statements) = 0
       THEN [entity |-> entity, raised |-> "NoStatementsForThatProperty"]
       ELSE IF at = 0
       THEN [entity |-> entity, raised |-> "NoStatementsWithThatValue"]
       ELSE [entity |-> [entity EXCEPT !.statements = pop(@, at)], raised |-> "ok"]

\* update_entity_json on a document: the document as the call leaves it, in place,
\* and the exception it raised
patch_entity_json(entity, c) ==
    IF c.operation \in {"set_statement", "create_statement"}
    THEN update_entity_statements(entity, c)
    ELSE IF c.operation = "remove_statement_by_value"
    THEN remove_entity_statement(entity, c)
    ELSE remove_qualifier_or_reference(entity, c)

\* what is followed of the applications: the document as it is now, and for each
\* application so far the document it met, its command and the exception it raised
Patching(entity, log) == [entity |-> entity, log |-> log]

Application(before, command, raised) ==
    [before |-> before, command |-> command, raised |-> raised]

IdlePatching == Patching(NoProperty, <<>>)

----------------------------------------------------------------------------
(* BaseParser.parse_value_quantity, with the Decimal arithmetic it relies on *)

\* the longest integer part of an amount
MaxDigits == 29

\* the precision of the context that value + error and value - error are computed
\* in: decimal's default context, which the parser does not change
Precision == 28

\* a number as it is written: [\+\-]{0,1}\d+(\.\d+){0,1}, without a point when frac
\* is empty
Numeral(sign, int, frac) == [sign |-> sign, int |-> int, frac |-> frac]

zeros(n) == [i \in 1..n |-> 0]

\* str(int(digits)): no leading zero but for 0 itself
strip(s) ==
    LET at == first_index({i \in DOMAIN s : s[i] # 0})
    IN IF at = 0 THEN <<0>> ELSE SubSeq(s, at, Len(s))

align(s, n) == zeros(n - Len(s)) \o s

\* int + int on the digits of two coefficients
plus(x, y) ==
    LET n == IF Len(x) > Len(y) THEN Len(x) ELSE Len(y)
        xs == align(x, n)
        ys == align(y, n)
        carry[i \in 1..(n + 1)] ==
            IF i = n + 1 THEN 0 ELSE (xs[i] + ys[i] + carry[i + 1]) \div 10
    IN strip(<<carry[1]>> \o [i \in 1..n |-> (xs[i] + ys[i] + carry[i + 1]) % 10])

\* int - int on the digits of two coefficients, the first not below the second
minus(x, y) ==
    LET n == IF Len(x) > Len(y) THEN Len(x) ELSE Len(y)
        xs == align(x, n)
        ys == align(y, n)
        borrow[i \in 1..(n + 1)] ==
            IF i = n + 1 THEN 0
            ELSE IF xs[i] - ys[i] - borrow[i + 1] < 0 THEN 1 ELSE 0
    IN strip([i \in 1..n |-> (xs[i] - ys[i] - borrow[i + 1] + 10) % 10])

\* int < int on the digits of two coefficients
less(x, y) ==
    LET n == IF Len(x) > Len(y) THEN Len(x) ELSE Len(y)
        xs == align(x, n)
        ys == align(y, n)
    IN \E i \in 1..n : xs[i] < ys[i] /\ \A j \in 1..(i - 1) : xs[j] = ys[j]

\* a Decimal: sign, coefficient and exponent
Dec(sign, int, exp) == [sign |-> sign, int |-> int, exp |-> exp]

\* Decimal(text): the digits before and after the point are the coefficient, the
\* number of digits after the point gives the exponent
Decimal(numeral) ==
    Dec(IF numeral.sign = "-" THEN 1 ELSE 0,
        strip(numeral.int \o numeral.frac),
        0 - Len(numeral.frac))

is_zero(d) == d.int = <<0>>

\* Decimal._fix under the default context: a coefficient of more than Precision
\* digits is rounded to Precision digits, half to even, and the exponent grows by
\* the digits dropped
Decimal_fix(d) ==
    IF is_zero(d) \/ Len(d.int) <= Precision THEN d
    ELSE LET keep == SubSeq(d.int, 1, Precision)
             rest == SubSeq(d.int, Precision + 1, Len(d.int))
             up == \/ rest[1] > 5
                   \/ /\ rest[1] = 5
                      /\ \/ \E i \in 2..Len(rest) : rest[i] # 0
                         \/ keep[Precision] % 2 = 1
             coeff == IF up THEN plus(keep, <<1>>) ELSE keep
         IN IF Len(coeff) > Precision
            THEN Dec(d.sign, SubSeq(coeff, 1, Precision), d.exp + Len(rest) + 1)
            ELSE Dec(d.sign, coeff, d.exp + Len(rest))

\* Decimal._rescale to an exponent that is not above the number's: zeros are added
Decimal_rescale(d, exp) ==
    Dec(d.sign, IF is_zero(d) THEN <<0>> ELSE d.int \o zeros(d.exp - exp), exp)

\* Decimal.__add__ before its result is fixed: the operands are brought to the
\* smaller exponent and their coefficients added or subtracted; a zero operand
\* leaves the other one, rescaled
Decimal_sum(a, b) ==
    LET exp == IF a.exp < b.exp THEN a.exp ELSE b.exp
        floor(d) == IF exp > d.exp - Precision - 1 THEN exp ELSE d.exp - Precision - 1
        x == a.int \o zeros(a.exp - exp)
        y == b.int \o zeros(b.exp - exp)
    IN IF is_zero(a) /\ is_zero(b)
       THEN Dec(IF a.sign < b.sign THEN a.sign ELSE b.sign, <<0>>, exp)
       ELSE IF is_zero(a) THEN Decimal_rescale(b, floor(b))
       ELSE IF is_zero(b) THEN Decimal_rescale(a, floor(a))
       ELSE IF a.sign # b.sign
       THEN IF x = y THEN Dec(0, <<0>>, exp)
            ELSE IF less(x, y) THEN Dec(b.sign, minus(y, x), exp)
            ELSE Dec(a.sign, minus(x, y), exp)
       ELSE Dec(a.sign, plus(x, y), exp)

\* Decimal.__add__
Decimal_add(a, b) == Decimal_fix(Decimal_sum(a, b))

\* Decimal.__sub__: the sum with the second operand negated
Decimal_sub(a, b) == Decimal_add(a, Dec(1 - b.sign, b.int, b.exp))

\* Decimal.__str__: the digits with the point where the exponent puts it, or with
\* one digit before the point and an exponent when the exponent is above 0 or the
\* number is below 1E-6
Decimal_str(d) ==
    LET n == Len(d.int)
        leftdigits == d.exp + n
        dotplace == IF d.exp <= 0 /\ leftdigits > -6 THEN leftdigits ELSE 1
    IN [minus |-> d.sign = 1,
        int |-> IF dotplace <= 0 THEN <<0>>
                ELSE IF dotplace >= n THEN d.int \o zeros(dotplace - n)
                ELSE SubSeq(d.int, 1, dotplace),
        frac |-> IF dotplace <= 0 THEN zeros(0 - dotplace) \o d.int
                 ELSE IF dotplace >= n THEN <<>>
                 ELSE SubSeq(d.int, dotplace + 1, n),
        exponent |-> IF leftdigits = dotplace THEN <<>> ELSE <<leftdigits - dotplace>>]

\* str_amount: a plus sign before every amount that is not below 0
str_amount(amount) ==
    [plus |-> is_zero(amount) \/ amount.sign = 0, text |-> Decimal_str(amount)]

\* group 4, 8 or 6 of the match: the digits after U, "1" without them
unit_or_default(unit) == IF unit # NONE THEN unit ELSE "1"

QuantityValue(amount, lowerBound, upperBound, unit) ==
    [amount |-> amount, lowerBound |-> lowerBound, upperBound |-> upperBound, unit |-> unit]

\* the texts that the second and the third expression of parse_value_quantity match
BoundsForm(amount, lower, upper, unit) ==
    [form |-> "bounds", amount |-> amount, lower |-> lower, upper |-> upper, unit |-> unit]

ToleranceForm(amount, error, unit) ==
    [form |-> "error", amount |-> amount, error |-> error, unit |-> unit]

\* parse_value_quantity: the plain form has an amount and a unit; the bounds form
\* reads its three numbers as they are written; the tolerance form computes its
\* bounds as value - error and value + error
parse_value_quantity(v) ==
    IF v.form = "quantity"
    THEN QuantityValue(str_amount(Decimal(v.amount)), NONE, NONE, unit_or_default(v.unit))
    ELSE IF v.form = "bounds"
    THEN QuantityValue(str_amount(Decimal(v.amount)), str_amount(Decimal(v.lower)),
                       str_amount(Decimal(v.upper)), unit_or_default(v.unit))
    ELSE LET value == Decimal(v.amount)
             error == Decimal(v.error)
         IN QuantityValue(str_amount(value),
                          str_amount(Decimal_sub(value, error)),
                          str_amount(Decimal_add(value, error)),
                          unit_or_default(v.unit))

\* a number written out in full, as the author of a bounds form writes a bound:
\* every digit, the point where the exponent puts it, a minus sign below 0
written(d) ==
    LET n == Len(d.int)
        scale == 0 - d.exp
        all == align(d.int, IF n > scale THEN n ELSE scale + 1)
    IN Numeral(IF d.sign = 1 /\ ~is_zero(d) THEN "-" ELSE "",
               SubSeq(all, 1, Len(all) - scale),
               SubSeq(all, Len(all) - scale + 1, Len(all)))

\* the amounts: a first digit, then the same digit up to MaxDigits digits in all,
\* with or without a sign and a decimal
Amounts ==
    {Numeral(sign, <<first>> \o [i \in 1..(n - 1) |-> filler], frac) :
        sign \in {"", "+", "-"},
        first \in {1, 9},
        filler \in {0, 9},
        n \in 1..MaxDigits,
        frac \in {<<>>, <<5>>}}

Tolerances ==
    {Numeral(sign, int, frac) :
        sign \in {"", "-"},
        int \in {<<0>>, <<1>>},
        frac \in {<<>>, <<5>>, <<0, 5>>}}

Units == {NONE, "11573"}

\* what is followed of the parser: a quantity, and what its two ways of writing it
\* were parsed to (<<>>: not parsed yet)
Parsing(amount, error, unit, tolerance, bounds) ==
    [amount |-> amount, error |-> error, unit |-> unit, tolerance |-> tolerance,
     bounds |-> bounds]

IdleParsing == Parsing(NONE, NONE, NONE, <<>>, <<>>)

IdleFunctions == patching = IdlePatching /\ parsing = IdleParsing

----------------------------------------------------------------------------
(* The initial state: a batch as the web form (Preview) or the API (Initial) *)
(* stores it, with its parsed commands                                       *)

\* Command.handle before its loop: no thread was started, and no batch but the one
\* whose run is followed in detail
IdleScheduler ==
    /\ store = <<>>
    /\ handle = [pc |-> "poll", users |-> {}]
    /\ user_threads = [u \in Users |-> 0]
    /\ threads = <<>>

Batches(n) ==
    {progs \in [1..n -> Programs] :
        Cardinality({i \in 1..n : progs[i][2] # "match"}) <= MaxFaulty}

InitWith(longest, statuses) ==
    \E n \in 1..longest :
    \E progs \in Batches(n) :
    \E boe \in BOOLEAN, comb \in BOOLEAN, st \in statuses :
        /\ batch = [status |-> st, message |-> NONE, blocked_by |-> 0,
                    block_on_errors |-> boe, combine_commands |-> comb]
        /\ cmd = [i \in 1..n |-> progs[i][1]]
        /\ parsed = [i \in 1..n |-> progs[i][1]]
        /\ typing = [i \in 1..n |-> progs[i][2]]
        /\ run = IdleRun
        /\ writes = [i \in 1..n |-> 0]
        /\ accepted = [i \in 1..n |-> 0]
        /\ last_create = NoCreate
        /\ budget = MaxRequests
        /\ crashes = 0
        /\ IdleScheduler
        /\ IdleFunctions

Init == InitWith(MaxCmds, {"Preview", "Initial"})

\* a batch handed to the runner as the API stores it
InitRun == InitWith(MaxRunCmds, {"Initial"})

\* a batch handed to the runner with some of its commands verified already, by an
\* earlier verification whose answers the remote may not give any more
InitVerified ==
    \E n \in 1..MaxVerifiedCmds :
    \E progs \in Batches(n) :
    \E verified \in [1..n -> BOOLEAN] :
    \E boe \in BOOLEAN, comb \in BOOLEAN :
        /\ batch = [status |-> "Initial", message |-> NONE, blocked_by |-> 0,
                    block_on_errors |-> boe, combine_commands |-> comb]
        /\ cmd = [i \in 1..n |-> [progs[i][1] EXCEPT !.value_type_verified = verified[i]]]
        /\ parsed = [i \in 1..n |-> progs[i][1]]
        /\ typing = [i \in 1..n |-> progs[i][2]]
        /\ run = IdleRun
        /\ writes = [i \in 1..n |-> 0]
        /\ accepted = [i \in 1..n |-> 0]
        /\ last_create = NoCreate
        /\ budget = MaxRequests
        /\ crashes = 0
        /\ IdleScheduler
        /\ IdleFunctions

----------------------------------------------------------------------------
(* Batch.run, one action for each stretch between two accesses to the store *)

\* a caller (the scheduler's thread, or a direct caller) obtains the batch object
Load ==
    /\ run.pc = "idle"
    /\ run' = [IdleRun EXCEPT !.pc = "loaded", !.status = batch.status,
                              !.message = batch.message]
    /\ UNCHANGED <<batch, cmd, parsed, typing, writes, last_create, budget, crashes, accepted, scheduler, functions>>

\* Batch.run up to start(): the guard on the object's status, then start()
RunStart ==
    /\ run.pc = "loaded"
    /\ IF ~is_initial_or_running(run.status)
       THEN /\ run' = IdleRun
            /\ UNCHANGED <<batch, last_create>>
       ELSE /\ batch' = [batch EXCEPT !.status = "Running", !.message = "started",
                                      !.blocked_by = 0]
            /\ run' = [run EXCEPT !.pc = "authorize", !.status = "Running",
                                  !.message = "started"]
            /\ last_create' = NoCreate
    /\ UNCHANGED <<cmd, parsed, typing, writes, budget, crashes, accepted, scheduler, functions>>

\* variant: the message is stored, the status is left alone
keep_status_with_message(message, index) ==
    batch' = [batch EXCEPT !.message = message, !.blocked_by = index]

\* block_with_message and its callers
block_with_message(message, index) ==
    batch' = [batch EXCEPT !.status = "Blocked", !.message = message, !.blocked_by = index]

\* variant: the owner's write access is not looked at
authorize_anyone(auth) ==
    /\ run.pc = "authorize"
    /\ run' = [run EXCEPT !.pc = "verify"]
    /\ UNCHANGED <<batch, cmd, parsed, typing, writes, last_create, budget, crashes, accepted, scheduler, functions>>

\* Batch.run: the owner's token and autoconfirmed status
RunAuthorize(auth) ==
    /\ run.pc = "authorize"
    /\ IF auth \in {"no_token", "unauthorized", "server_error"}
       THEN block_with_message("no_token", 0) /\ run' = IdleRun
       ELSE IF auth = "not_autoconfirmed"
       THEN block_with_message("not_autoconfirmed", 0) /\ run' = IdleRun
       ELSE run' = [run EXCEPT !.pc = "verify"] /\ UNCHANGED batch
    /\ UNCHANGED <<cmd, parsed, typing, writes, last_create, budget, crashes, accepted, scheduler, functions>>

\* Batch.run: the loop verifying value types, then the set-up of the execution loop
RunVerify ==
    /\ run.pc = "verify"
    /\ LET r == verify_loop(cmd, typing, 1, batch.block_on_errors)
       IN  /\ cmd' = r.cs
           /\ IF r.outcome = "blocked"
              THEN block_with_message("blocked_by_command", r.index) /\ run' = IdleRun
              ELSE IF r.outcome = "raised"
              THEN run' = IdleRun /\ UNCHANGED batch
              ELSE /\ run' = [run EXCEPT !.pc = "loop", !.queue = pending_from(r.cs, 1),
                                         !.last_id = NONE, !.commands = <<>>,
                                         !.entity = NONE]
                   /\ UNCHANGED batch
    /\ UNCHANGED <<parsed, typing, writes, last_create, budget, crashes, accepted, scheduler, functions>>

\* Batch.run: one iteration of the execution loop
RunCommand(net, mut) ==
    /\ run.pc = "loop"
    /\ run.queue # <<>>
    /\ IF is_stopped(batch.status)
       THEN /\ run' = IdleRun
            /\ UNCHANGED <<batch, cmd, writes, accepted, last_create>>
       ELSE LET current == Head(run.queue)
                upcoming == IF Len(run.queue) > 1 THEN run.queue[2] ELSE 0
                ccn == check_combination(cmd, current, upcoming, batch.combine_commands)
                resolved == [cmd EXCEPT ![current] = update_last_id(@, run.last_id)]
                r == CommandRun(resolved, current, run.commands, run.entity, ccn,
                                typing[current], net, mut)
            IN  /\ cmd' = r.cs
                /\ writes' = [writes EXCEPT ![current] = IF r.wrote THEN @ + 1 ELSE @]
                /\ accepted' = [accepted EXCEPT
                                  ![current] = IF r.wrote /\ r.cs[current].status = "Done"
                                               THEN @ + 1 ELSE @]
                /\ last_create' = LastCreateAfter(cmd, r.cs, current, last_create)
                /\ IF is_error_status(r.cs[current]) /\ batch.block_on_errors
                   THEN /\ block_with_message("blocked_by_command", current)
                        /\ run' = IdleRun
                   ELSE /\ run' = [run EXCEPT
                                      !.status = batch.status,
                                      !.message = batch.message,
                                      !.queue = Tail(@),
                                      !.commands = r.commands,
                                      !.entity = r.entity,
                                      !.last_id = IF cmd[current].action = "CREATE"
                                                  THEN r.cs[current].response_id ELSE @]
                        /\ UNCHANGED batch
    /\ UNCHANGED <<parsed, typing, budget, crashes, scheduler, functions>>

\* Batch.run after the loop: back to Initial when commands are still Initial, else finish()
RunFinish ==
    /\ run.pc = "loop"
    /\ run.queue = <<>>
    /\ IF \E i \in DOMAIN cmd : cmd[i].status = "Initial"
       THEN batch' = [batch EXCEPT !.status = "Initial", !.message = run.message]
       ELSE batch' = [batch EXCEPT !.status = "Done", !.message = "finished",
                                   !.blocked_by = 0]
    /\ run' = IdleRun
    /\ UNCHANGED <<cmd, parsed, typing, writes, last_create, budget, crashes, accepted, scheduler, functions>>

----------------------------------------------------------------------------
(* The requests of the batch's owner *)

\* batch_allow_start: the confirmation of a previewed batch
Confirm(can_start) ==
    /\ IF batch.status = "Preview" /\ can_start
       THEN batch' = [batch EXCEPT !.status = "Initial"]
       ELSE UNCHANGED batch
    /\ UNCHANGED <<cmd, parsed, typing, run, writes, last_create, budget, crashes, accepted, scheduler, functions>>

\* Batch.stop
Stop ==
    /\ budget > 0
    /\ IF ~is_done(batch.status)
       THEN /\ batch' = [batch EXCEPT !.status = "Stopped", !.message = "stopped",
                                      !.blocked_by = 0]
            /\ budget' = budget - 1
       ELSE UNCHANGED <<batch, budget>>
    /\ UNCHANGED <<cmd, parsed, typing, run, writes, last_create, crashes, accepted, scheduler, functions>>

\* Batch.restart
Restart ==
    /\ IF is_stopped(batch.status)
       THEN batch' = [batch EXCEPT !.status = "Initial", !.message = "restarted",
                                   !.blocked_by = 0]
       ELSE UNCHANGED batch
    /\ UNCHANGED <<cmd, parsed, typing, run, writes, last_create, budget, crashes, accepted, scheduler, functions>>

\* variant: a rerun resets every command
rerun_every_command(combine) ==
    /\ budget > 0
    /\ IF is_done_and_has_pending(batch.status, cmd)
       THEN /\ cmd' = [i \in DOMAIN cmd |-> [cmd[i] EXCEPT !.status = "Initial"]]
            /\ batch' = [batch EXCEPT !.status = "Initial", !.message = "rerun",
                                      !.blocked_by = 0, !.combine_commands = combine]
            /\ budget' = budget - 1
       ELSE UNCHANGED <<batch, cmd, budget>>
    /\ UNCHANGED <<parsed, typing, run, writes, last_create, crashes, accepted, scheduler, functions>>

\* batch_rerun: the choice of combining, then Batch.rerun
Rerun(combine) ==
    /\ budget > 0
    /\ IF is_done_and_has_pending(batch.status, cmd)
       THEN /\ cmd' = [i \in DOMAIN cmd |->
                          IF cmd[i].status # "Done" THEN [cmd[i] EXCEPT !.status = "Initial"]
                          ELSE cmd[i]]
            /\ batch' = [batch EXCEPT !.status = "Initial", !.message = "rerun",
                                      !.blocked_by = 0, !.combine_commands = combine]
            /\ budget' = budget - 1
       ELSE UNCHANGED <<batch, cmd, budget>>
    /\ UNCHANGED <<parsed, typing, run, writes, last_create, crashes, accepted, scheduler, functions>>

----------------------------------------------------------------------------
(* The scheduler's process dies and is started again *)

\* the process of send_batches dies, and the run in progress with it: the rows stay
\* as the run last stored them
Crash ==
    /\ crashes < MaxCrashes
    /\ run.pc \notin {"down", "recovering"}
    /\ run' = [IdleRun EXCEPT !.pc = "down"]
    /\ crashes' = crashes + 1
    /\ UNCHANGED <<batch, cmd, parsed, typing, writes, last_create, budget, accepted, scheduler, functions>>

\* the process dies while BatchCommand.run executes a command, after the remote has
\* accepted the command's write and before finish() saves the command: the row is as
\* start(), update_last_id and verify_value_types saved it, and the rows of the
\* commands folded before it are untouched
CrashAfterWrite(mut) ==
    /\ crashes < MaxCrashes
    /\ run.pc = "loop"
    /\ run.queue # <<>>
    /\ ~is_stopped(batch.status)
    /\ LET current == Head(run.queue)
           upcoming == IF Len(run.queue) > 1 THEN run.queue[2] ELSE 0
           ccn == check_combination(cmd, current, upcoming, batch.combine_commands)
           resolved == [cmd EXCEPT ![current] = update_last_id(@, run.last_id)]
           r == CommandRun(resolved, current, run.commands, run.entity, ccn,
                           typing[current], "ok", mut)
       IN  /\ r.wrote /\ r.cs[current].status = "Done"
           /\ cmd' = [resolved EXCEPT ![current].status = "Running",
                                      ![current].value_type_verified = TRUE]
           /\ writes' = [writes EXCEPT ![current] = @ + 1]
           /\ accepted' = [accepted EXCEPT ![current] = @ + 1]
    /\ run' = [IdleRun EXCEPT !.pc = "down"]
    /\ crashes' = crashes + 1
    /\ UNCHANGED <<batch, parsed, typing, last_create, budget, scheduler, functions>>

\* Command.handle at the start of the process: the Running commands of Running
\* batches are set to Initial
RecoverCommands ==
    /\ run.pc = "down"
    /\ cmd' = [i \in DOMAIN cmd |->
                  IF batch.status = "Running" /\ cmd[i].status = "Running"
                  THEN [cmd[i] EXCEPT !.status = "Initial", !.message = "restarted"]
                  ELSE cmd[i]]
    /\ run' = [run EXCEPT !.pc = "recovering"]
    /\ UNCHANGED <<batch, parsed, typing, writes, last_create, budget, crashes, accepted, scheduler, functions>>

\* Command.handle at the start of the process: the Running batches are set to
\* Initial, and the loop starts
RecoverBatches ==
    /\ run.pc = "recovering"
    /\ IF batch.status = "Running"
       THEN batch' = [batch EXCEPT !.status = "Initial", !.message = "restarted_by_server"]
       ELSE UNCHANGED batch
    /\ run' = IdleRun
    /\ UNCHANGED <<cmd, parsed, typing, writes, last_create, budget, crashes, accepted, scheduler, functions>>

----------------------------------------------------------------------------
(* The scheduler: the loop of Command.handle and the threads it starts, over *)
(* several batches of several owners.  Of a run of a batch only the status   *)
(* it stores is kept.                                                        *)

\* the statuses of a batch in the scheduler's store; Absent: not created yet
StoreStatuses == {"Absent", "Initial", "Running", "Done", "Blocked"}

\* what Batch.run leaves as the status of a batch it started: finished, blocked, back
\* to Initial with commands still Initial, or Running after an exception
RunOutcomes == {"Done", "Blocked", "Initial", "Running"}

\* Batch.objects.filter(status=Batch.STATUS_INITIAL)
initial_batches == {b \in DOMAIN store : store[b].status = "Initial"}

\* batches.filter(user=user), in the order of the iterator
RECURSIVE user_batches(_, _)
user_batches(u, b) ==
    IF b > Len(store) THEN <<>>
    ELSE IF store[b].status = "Initial" /\ store[b].user = u
         THEN <<b>> \o user_batches(u, b + 1)
         ELSE user_batches(u, b + 1)

\* Thread.is_alive of the thread user_threads holds for owner u
is_alive(u) == user_threads[u] # 0 /\ threads[user_threads[u]].alive

\* an owner creates a batch (or confirms its preview): it is stored Initial
Submit(b) ==
    /\ b \in DOMAIN store
    /\ store[b].status = "Absent"
    /\ store' = [store EXCEPT ![b].status = "Initial"]
    /\ UNCHANGED <<batch, cmd, parsed, typing, run, writes, last_create, budget, crashes, accepted, functions>>
    /\ UNCHANGED <<handle, user_threads, threads>>

\* Command.handle, the start of an iteration of its loop: the owners of the Initial
\* batches, and the threads that ended are forgotten
Poll ==
    /\ handle.pc = "poll"
    /\ handle' = [pc |-> "users", users |-> {store[b].user : b \in initial_batches}]
    /\ user_threads' = [u \in Users |-> IF is_alive(u) THEN user_threads[u] ELSE 0]
    /\ UNCHANGED <<batch, cmd, parsed, typing, run, writes, last_create, budget, crashes, accepted, functions>>
    /\ UNCHANGED <<store, threads>>

\* the thread started for owner u, before it evaluates its query
NewThread(u) == [user |-> u, alive |-> TRUE, pc |-> "query", queue |-> <<>>, current |-> 0]

\* variant: a thread is started for the owner whether or not one is alive
start_thread_unchecked(u) ==
    /\ handle.pc = "users" /\ u \in handle.users
    /\ Len(threads) < MaxThreads
    /\ threads' = Append(threads, NewThread(u))
    /\ user_threads' = [user_threads EXCEPT ![u] = Len(threads) + 1]
    /\ handle' = [handle EXCEPT !.users = @ \ {u}]
    /\ UNCHANGED <<batch, cmd, parsed, typing, run, writes, last_create, budget, crashes, accepted, functions>>
    /\ UNCHANGED store

\* Command.handle, the body of the loop over the owners: owner u is skipped when its
\* thread is alive, else a thread is started for it
HandleUser(u) ==
    /\ handle.pc = "users" /\ u \in handle.users
    /\ IF is_alive(u)
       THEN UNCHANGED <<threads, user_threads>>
       ELSE /\ Len(threads) < MaxThreads
            /\ threads' = Append(threads, NewThread(u))
            /\ user_threads' = [user_threads EXCEPT ![u] = Len(threads) + 1]
    /\ handle' = [handle EXCEPT !.users = @ \ {u}]
    /\ UNCHANGED <<batch, cmd, parsed, typing, run, writes, last_create, budget, crashes, accepted, functions>>
    /\ UNCHANGED store

\* Command.handle, the end of an iteration of its loop: the sleep
Sleep ==
    /\ handle.pc = "users" /\ handle.users = {}
    /\ handle' = [handle EXCEPT !.pc = "poll"]
    /\ UNCHANGED <<batch, cmd, parsed, typing, run, writes, last_create, budget, crashes, accepted, functions>>
    /\ UNCHANGED <<store, user_threads, threads>>

\* process_batches: the iterator evaluates the query for the owner's Initial batches
ThreadQuery(t) ==
    /\ t \in DOMAIN threads
    /\ threads[t].alive /\ threads[t].pc = "query"
    /\ threads' = [threads EXCEPT ![t].pc = "iterate",
                                  ![t].queue = user_batches(threads[t].user, 1)]
    /\ UNCHANGED <<batch, cmd, parsed, typing, run, writes, last_create, budget, crashes, accepted, functions>>
    /\ UNCHANGED <<store, handle, user_threads>>

\* process_batches: batch.run() is called on the next batch, loaded as Initial, and
\* stores Running
ThreadRun(t) ==
    /\ t \in DOMAIN threads
    /\ threads[t].alive /\ threads[t].pc = "iterate" /\ threads[t].queue # <<>>
    /\ threads' = [threads EXCEPT ![t].pc = "running",
                                  ![t].current = Head(threads[t].queue),
                                  ![t].queue = Tail(threads[t].queue)]
    /\ store' = [store EXCEPT ![Head(threads[t].queue)].status = "Running"]
    /\ UNCHANGED <<batch, cmd, parsed, typing, run, writes, last_create, budget, crashes, accepted, functions>>
    /\ UNCHANGED <<handle, user_threads>>

\* process_batches: batch.run() returns or raises, the exception is logged
ThreadReturn(t, outcome) ==
    /\ t \in DOMAIN threads
    /\ threads[t].alive /\ threads[t].pc = "running"
    /\ store' = [store EXCEPT ![threads[t].current].status = outcome]
    /\ threads' = [threads EXCEPT ![t].pc = "iterate", ![t].current = 0]
    /\ UNCHANGED <<batch, cmd, parsed, typing, run, writes, last_create, budget, crashes, accepted, functions>>
    /\ UNCHANGED <<handle, user_threads>>

\* process_batches returns: the thread ends
ThreadExit(t) ==
    /\ t \in DOMAIN threads
    /\ threads[t].alive /\ threads[t].pc = "iterate" /\ threads[t].queue = <<>>
    /\ threads' = [threads EXCEPT ![t].alive = FALSE]
    /\ UNCHANGED <<batch, cmd, parsed, typing, run, writes, last_create, budget, crashes, accepted, functions>>
    /\ UNCHANGED <<store, handle, user_threads>>

----------------------------------------------------------------------------

Next ==
    \/ Load
    \/ RunStart
    \/ \E auth \in AuthOutcomes : RunAuthorize(auth)
    \/ RunVerify
    \/ \E net \in NetOutcomes, mut \in MutOutcomes : RunCommand(net, mut)
    \/ RunFinish
    \/ \E can_start \in BOOLEAN : Confirm(can_start)
    \/ Stop
    \/ Restart
    \/ \E combine \in BOOLEAN : Rerun(combine)

Spec == Init /\ [][Next]_vars

\* the runs of a batch nobody stops or reruns
NextRun ==
    \/ Load
    \/ RunStart
    \/ \E auth \in AuthOutcomes : RunAuthorize(auth)
    \/ RunVerify
    \/ \E net \in NetOutcomes, mut \in MutOutcomes : RunCommand(net, mut)
    \/ RunFinish

SpecRun == InitRun /\ [][NextRun]_vars

\* the runs of a batch some of whose commands were verified before
SpecVerified == InitVerified /\ [][NextRun]_vars

\* a batch handed to a scheduler whose process may die and start again
InitRecovery == InitWith(MaxRecoveryCmds, {"Initial"})

\* the runs of a batch its owner may stop and restart, by a scheduler whose process
\* may die and start again
NextRecovery ==
    \/ Load
    \/ RunStart
    \/ \E auth \in AuthOutcomes : RunAuthorize(auth)
    \/ RunVerify
    \/ \E net \in NetOutcomes, mut \in MutOutcomes : RunCommand(net, mut)
    \/ RunFinish
    \/ Stop
    \/ Restart
    \/ Crash
    \/ \E mut \in MutOutcomes : CrashAfterWrite(mut)
    \/ RecoverCommands
    \/ RecoverBatches

SpecRecovery == InitRecovery /\ [][NextRecovery]_vars

\* the scheduler is started over the batches of two owners, some of them created
\* later; the batch followed in detail elsewhere is a single create here
InitScheduler ==
    /\ batch = [status |-> "Preview", message |-> NONE, blocked_by |-> 0,
                block_on_errors |-> FALSE, combine_commands |-> FALSE]
    /\ cmd = <<NewCommand("create_item", "CREATE", NONE)>>
    /\ parsed = cmd
    /\ typing = <<"match">>
    /\ run = IdleRun
    /\ writes = <<0>>
    /\ accepted = <<0>>
    /\ last_create = NoCreate
    /\ budget = 0
    /\ crashes = 0
    /\ store \in [1..MaxBatches -> [user : Users, status : {"Absent", "Initial"}]]
    /\ handle = [pc |-> "poll", users |-> {}]
    /\ user_threads = [u \in Users |-> 0]
    /\ threads = <<>>
    /\ IdleFunctions

NextScheduler ==
    \/ \E b \in 1..MaxBatches : Submit(b)
    \/ Poll
    \/ \E u \in Users : HandleUser(u)
    \/ Sleep
    \/ \E t \in 1..MaxThreads : ThreadQuery(t)
    \/ \E t \in 1..MaxThreads : ThreadRun(t)
    \/ \E t \in 1..MaxThreads, outcome \in RunOutcomes : ThreadReturn(t, outcome)
    \/ \E t \in 1..MaxThreads : ThreadExit(t)

SpecScheduler == InitScheduler /\ [][NextScheduler]_vars

\* the scheduler whose loop never ends and whose threads are all given time to run,
\* with a remote that always answers, so that every call of Batch.run ends
SchedulerFairness ==
    /\ WF_vars(Poll)
    /\ WF_vars(\E u \in Users : HandleUser(u))
    /\ WF_vars(Sleep)
    /\ \A t \in 1..MaxThreads :
          /\ WF_vars(ThreadQuery(t))
          /\ WF_vars(ThreadRun(t))
          /\ WF_vars(\E outcome \in RunOutcomes : ThreadReturn(t, outcome))
          /\ WF_vars(ThreadExit(t))

SpecSchedulerLive == InitScheduler /\ [][NextScheduler]_vars /\ SchedulerFairness

----------------------------------------------------------------------------
(* Commands applied one after the other to one entity document, as a run    *)
(* applies the commands it combines                                          *)

\* no batch is run while the document is followed
IdleRunner ==
    /\ batch = [status |-> "Preview", message |-> NONE, blocked_by |-> 0,
                block_on_errors |-> FALSE, combine_commands |-> FALSE]
    /\ cmd = <<NewCommand("create_item", "CREATE", NONE)>>
    /\ parsed = cmd
    /\ typing = <<"match">>
    /\ run = IdleRun
    /\ writes = <<0>>
    /\ accepted = <<0>>
    /\ last_create = NoCreate
    /\ budget = 0
    /\ crashes = 0

InitPatching ==
    /\ IdleRunner
    /\ IdleScheduler
    /\ parsing = IdleParsing
    /\ \E entity \in InitialDocuments : patching = Patching(entity, <<>>)

\* command.update_entity_json(entity): the document is changed in place, and stays
\* as the call left it when the call raises
UpdateEntityJson(c) ==
    /\ Len(patching.log) < MaxApplications
    /\ LET r == patch_entity_json(patching.entity, c)
       IN patching' = Patching(r.entity,
                               Append(patching.log, Application(patching.entity, c, r.raised)))
    /\ UNCHANGED <<runner, scheduler, parsing>>

NextPatching == \E c \in PatchCommands : UpdateEntityJson(c)

SpecPatching == InitPatching /\ [][NextPatching]_vars

----------------------------------------------------------------------------
(* One quantity given to the parser in its two forms                         *)

InitParser ==
    /\ IdleRunner
    /\ IdleScheduler
    /\ patching = IdlePatching
    /\ \E amount \in Amounts, error \in Tolerances, unit \in Units :
          parsing = Parsing(amount, error, unit, <<>>, <<>>)

\* parse_value_quantity("a~t") or ("a~tU...")
ParseTolerance ==
    /\ parsing.tolerance = <<>>
    /\ parsing' = [parsing EXCEPT !.tolerance =
                      <<parse_value_quantity(ToleranceForm(parsing.amount, parsing.error,
                                                          parsing.unit))>>]
    /\ UNCHANGED <<runner, scheduler, patching>>

\* parse_value_quantity("a[l,u]") or ("a[l,u]U..."), with l and u the difference
\* and the sum of a and t, written out
ParseBounds ==
    /\ parsing.bounds = <<>>
    /\ LET value == Decimal(parsing.amount)
           error == Decimal(parsing.error)
           lower == written(Decimal_sum(value, Dec(1 - error.sign, error.int, error.exp)))
           upper == written(Decimal_sum(value, error))
       IN parsing' = [parsing EXCEPT !.bounds =
                         <<parse_value_quantity(BoundsForm(parsing.amount, lower, upper,
                                                          parsing.unit))>>]
    /\ UNCHANGED <<runner, scheduler, patching>>

NextParser == ParseTolerance \/ ParseBounds

SpecParser == InitParser /\ [][NextParser]_vars

----------------------------------------------------------------------------
(* Steps of the execution loop, for the properties below *)

\* one iteration of the loop of Batch.run
RunCommandStep == \E net \in NetOutcomes, mut \in MutOutcomes : RunCommand(net, mut)

\* the iteration passes the stop check and hands command i to BatchCommand.run
Executes(i) ==
    /\ run.pc = "loop"
    /\ run.queue # <<>>
    /\ Head(run.queue) = i
    /\ ~is_stopped(batch.status)
    /\ RunCommandStep

\* command i starts executing: BatchCommand.run finds it Initial and calls start()
StartsExecuting(i) == Executes(i) /\ cmd[i].status = "Initial"

----------------------------------------------------------------------------
(* C1 *)

\* C1: with block_on_errors set, when the command an iteration of Batch.run executes
\* ends in Error, the batch becomes Blocked (by that command) and the run stops; every
\* command with a greater index is left as it was, with no write issued for it, which
\* in a batch never stopped or rerun before means Initial and never written.
C1_BlockOnError ==
    [][\A i \in DOMAIN cmd :
        (batch.block_on_errors /\ Executes(i) /\ cmd'[i].status = "Error")
        => /\ batch'.status = "Blocked"
           /\ batch'.blocked_by = i
           /\ run'.pc = "idle"
           /\ \A j \in DOMAIN cmd :
                 j > i => /\ cmd'[j] = cmd[j] /\ writes'[j] = writes[j]
                          /\ budget = MaxRequests
                                => (cmd'[j].status = "Initial" /\ writes'[j] = 0)]_vars

\* a batch blocked by a command whose remote write was rejected, with a command after it
C1_Witness ==
    \E i \in DOMAIN cmd :
        /\ batch.block_on_errors
        /\ batch.status = "Blocked" /\ batch.blocked_by = i
        /\ cmd[i].status = "Error" /\ writes[i] = 1
        /\ i < Len(cmd) /\ cmd[i + 1].status = "Initial"

----------------------------------------------------------------------------
(* C2 *)

\* in the batch as parsed, a create at a immediately followed by the commands on
\* LAST up to b, the next command (if any) not being one more of them
IsCreateGroup(a, b) ==
    /\ a < b /\ b <= Len(parsed)
    /\ parsed[a].operation = "create_item"
    /\ \A k \in (a + 1)..b : parsed[k].entity = LAST /\ operation_is_combinable(parsed[k])
    /\ b < Len(parsed)
         => ~(parsed[b + 1].entity = LAST /\ operation_is_combinable(parsed[b + 1]))

\* what C2 says of a group once its write succeeded: all its commands are Done and
\* only the last carries a response id, the id of the created item
GroupDone(a, b) ==
    /\ \A k \in a..b : cmd[k].status = "Done" /\ cmd[k].entity = ItemIds[b]
    /\ \A k \in a..(b - 1) : cmd[k].response_id = NONE
    /\ cmd[b].response_id = ItemIds[b]

\* C2 as stated: with combine_commands set, when the run of a batch has finished,
\* exactly one write was issued for a create followed by commands on LAST, by the last
\* of them, and if that command is Done the whole group is.
C2_Original ==
    \A a, b \in DOMAIN cmd :
        (batch.combine_commands /\ IsCreateGroup(a, b) /\ batch.status = "Done")
        => /\ writes[b] = 1
           /\ \A k \in a..(b - 1) : writes[k] = 0
           /\ cmd[b].status = "Done" => GroupDone(a, b)

\* C2 (amended): with combine_commands set, in a batch never stopped or rerun, the
\* commands folded into the group of a create followed by commands on LAST issue no
\* write and the last command of the group issues at most one; it has issued exactly
\* one when the run has finished and the value types of every command of the group
\* verify; when the last command is Done the whole group is Done and only the last
\* command carries a response id, the id of the created item.
C2_MergeGroup ==
    \A a, b \in DOMAIN cmd :
        (batch.combine_commands /\ IsCreateGroup(a, b) /\ budget = MaxRequests)
        => /\ \A k \in a..(b - 1) : writes[k] = 0
           /\ writes[b] <= 1
           /\ (batch.status = "Done" /\ \A k \in a..b : typing[k] = "match")
                => writes[b] = 1
           /\ cmd[b].status = "Done" => (writes[b] = 1 /\ GroupDone(a, b))

\* a create and two commands on LAST, merged: one write, by the third command, and
\* the three commands Done
C2_Witness ==
    /\ batch.combine_commands /\ batch.status = "Done"
    /\ Len(cmd) = 3 /\ IsCreateGroup(1, 3)
    /\ GroupDone(1, 3)
    /\ writes = <<0, 0, 1>>

----------------------------------------------------------------------------
(* C3 *)

\* C3: when the command an iteration executes ends in Error while commands are folded
\* into the merge group it belongs to (its write was rejected, its local mutation
\* raised, or it was in Error already), every folded command is Error with the tag
\* combining_failed and no response id, and the failing command's own tag is not
\* combining_failed: it is the tag it had if it was in Error already.
C3_GroupFailure ==
    [][\A i \in DOMAIN cmd :
        (Executes(i) /\ run.commands # <<>> /\ cmd'[i].status = "Error")
        => /\ \A j \in SeqToSet(run.commands) :
                 /\ cmd'[j].status = "Error"
                 /\ cmd'[j].error = "combining_failed"
                 /\ cmd'[j].response_id = NONE
           /\ cmd'[i].error # "combining_failed"
           /\ cmd[i].status = "Error" => cmd'[i].error = cmd[i].error]_vars

\* a group of three whose closing command's write was rejected: the two folded
\* commands are Error with combining_failed, the closing one has its own tag
C3_Witness ==
    /\ Len(cmd) = 3
    /\ cmd[3].status = "Error" /\ cmd[3].error = "api_user_error" /\ writes[3] = 1
    /\ \A j \in {1, 2} :
          /\ cmd[j].status = "Error" /\ cmd[j].error = "combining_failed"
          /\ cmd[j].response_id = NONE /\ writes[j] = 0

----------------------------------------------------------------------------
(* C4 *)

\* C4: a command on LAST that starts executing when the last create the run met has
\* succeeded (whether the create wrote itself or was folded into a group written by a
\* later command) is executed against the id of the item that create made.
C4_LastResolved ==
    [][\A i \in DOMAIN cmd :
        (cmd[i].entity = LAST /\ last_create.outcome = "ok" /\ StartsExecuting(i))
        => cmd'[i].entity = cmd[last_create.index].entity]_vars

----------------------------------------------------------------------------
(* C5 *)

----------------------------------------------------------------------------
(* C6 *)

\* C6: Batch.run on a batch object whose status is Preview, Stopped, Blocked or Done
\* returns at once: the stored batch and commands are unchanged and no remote call is
\* made; a run goes past its guard only on an object that is Initial or Running.
C6_RunGuard ==
    [][RunStart =>
        /\ run.status \in {"Preview", "Stopped", "Blocked", "Done"}
             => (batch' = batch /\ cmd' = cmd /\ writes' = writes /\ run' = IdleRun)
        /\ run'.pc # "idle" => run.status \in {"Initial", "Running"}]_vars

\* run() is about to be called on a Blocked batch whose commands are not all Done
C6_Witness ==
    /\ run.pc = "loaded"
    /\ run.status = "Blocked" /\ batch.status = "Blocked"
    /\ \E i \in DOMAIN cmd : cmd[i].status = "Initial"

----------------------------------------------------------------------------
(* C7 *)

\* the changes of status C7 lists
ListedTransitions ==
    { <<"Preview", "Initial">>, <<"Initial", "Running">>, <<"Running", "Done">>,
      <<"Running", "Blocked">>, <<"Running", "Stopped">>, <<"Running", "Initial">>,
      <<"Stopped", "Initial">>, <<"Done", "Initial">> }

\* stop acts on every batch that is not Done
StopTransitions ==
    { <<"Preview", "Stopped">>, <<"Initial", "Stopped">>, <<"Blocked", "Stopped">> }

\* a run writes its status over the one a stop, or a stop and a restart, stored
\* since the run loaded or last refreshed the batch
OverwritingTransitions ==
    { <<"Stopped", "Running">>, <<"Stopped", "Blocked">>, <<"Stopped", "Done">>,
      <<"Initial", "Blocked">>, <<"Initial", "Done">> }

----------------------------------------------------------------------------
(* C8 *)

----------------------------------------------------------------------------
(* C9 *)

\* C9: rerun acts only on a Done batch with a command that is not Done: it sets every
\* such command to Initial and the batch to Initial, and leaves the Done commands as
\* they are; on any other batch it changes nothing.
C9_Rerun ==
    [][\A combine \in BOOLEAN :
        Rerun(combine)
        => IF batch.status = "Done" /\ \E i \in DOMAIN cmd : cmd[i].status # "Done"
           THEN /\ batch'.status = "Initial"
                /\ \A i \in DOMAIN cmd :
                      IF cmd[i].status = "Done" THEN cmd'[i] = cmd[i]
                      ELSE cmd'[i] = [cmd[i] EXCEPT !.status = "Initial"]
           ELSE batch' = batch /\ cmd' = cmd]_vars

\* a batch after its rerun: a Done command with its response id next to a command
\* reset from Error to Initial
C9_Witness ==
    /\ batch.status = "Initial" /\ batch.message = "rerun"
    /\ \E i, j \in DOMAIN cmd :
          /\ cmd[i].status = "Done" /\ cmd[i].response_id # NONE
          /\ cmd[j].status = "Initial" /\ cmd[j].error # NONE

----------------------------------------------------------------------------
(* C10 *)

\* C10: with block_on_errors unset, when Batch.run returns from the verification or
\* the execution of the commands of a batch nobody stopped, the batch is Done and every
\* command is Done or Error.
C10_ContinueOnError ==
    [][(~batch.block_on_errors /\ run.pc \in {"verify", "loop"} /\ run'.pc = "idle"
            /\ budget = MaxRequests)
        => /\ batch'.status = "Done"
           /\ \A i \in DOMAIN cmd : cmd'[i].status \in {"Done", "Error"}]_vars

----------------------------------------------------------------------------
(* C11 *)

\* the verification of command i's value types at its execution succeeds
PassesVerification(i) == ~should_verify_value_types(cmd[i]) \/ typing[i] = "match"

\* what check_combination does with combine_commands unset: the command is handed an
\* empty merge state, is not folded and hands an empty merge state on, and no other
\* command is touched
NothingFolded(i) ==
    /\ run.commands = <<>> /\ run.entity = NONE
    /\ run'.commands = <<>> /\ run'.entity = NONE
    /\ cmd'[i].status # "Running"
    /\ \A j \in DOMAIN cmd : j # i => cmd'[j] = cmd[j]

----------------------------------------------------------------------------
(* C12 *)

\* C12: when Batch.run, past its guard, finds no token for the owner, gets an
\* unauthorized or server error answer to the profile request, or finds the owner not
\* autoconfirmed, it stores Blocked with a message saying which and returns: no
\* command row changes (status, value_type_verified) and no remote write is issued.
C12_BlockedWithoutAccess ==
    [][\A auth \in {"no_token", "unauthorized", "server_error", "not_autoconfirmed"} :
        (run.pc = "authorize" /\ RunAuthorize(auth))
        => /\ batch'.status = "Blocked"
           /\ batch'.message = IF auth = "not_autoconfirmed" THEN "not_autoconfirmed"
                                ELSE "no_token"
           /\ cmd' = cmd
           /\ writes' = writes
           /\ run' = IdleRun]_vars

\* the first run of a batch of two commands has blocked it for want of a token: the
\* commands are as parsed
C12_Witness ==
    /\ batch.status = "Blocked" /\ batch.message = "no_token"
    /\ run.pc = "idle" /\ budget = MaxRequests
    /\ Len(cmd) >= 2
    /\ cmd = parsed
    /\ \A i \in DOMAIN cmd : writes[i] = 0

----------------------------------------------------------------------------
(* C13 *)

\* the verification loop of Batch.run reaches command i and finds that its value type
\* is not the one its property expects: i is an add-statement command not verified
\* yet, the remote's answer for it is a mismatch, and the loop does not end before i
FindsMismatch(i) ==
    /\ run.pc = "verify" /\ RunVerify
    /\ should_verify_value_types(cmd[i]) /\ typing[i] = "mismatch"
    /\ \A j \in 1..(i - 1) : typing[j] = "match"

\* C13: with block_on_errors set, when the verification before the execution finds a
\* mismatch at command i, that command becomes Error (with a message, its tag left
\* alone), the batch becomes Blocked by it and the run returns; every other command
\* is Initial, those before i verified and those after i as they were, and no remote
\* write has ever been issued for the batch.
C13_BlockedByVerification ==
    [][\A i \in DOMAIN cmd :
        (batch.block_on_errors /\ FindsMismatch(i))
        => /\ cmd'[i].status = "Error" /\ cmd'[i].message # NONE
           /\ cmd'[i].error = cmd[i].error
           /\ ~cmd'[i].value_type_verified
           /\ batch'.status = "Blocked" /\ batch'.blocked_by = i
           /\ run' = IdleRun
           /\ \A j \in DOMAIN cmd :
                 /\ j # i => cmd'[j].status = "Initial"
                 /\ j < i => cmd'[j].value_type_verified
                 /\ j > i => cmd'[j] = cmd[j]
                 /\ writes'[j] = 0]_vars

\* a batch of three blocked by the verification of its second command: the first is
\* verified and Initial, the third untouched
C13_Witness ==
    /\ batch.block_on_errors
    /\ batch.status = "Blocked" /\ batch.blocked_by = 2
    /\ Len(cmd) = 3 /\ typing[2] = "mismatch"
    /\ cmd[1].status = "Initial" /\ cmd[1].value_type_verified
    /\ cmd[2].status = "Error" /\ ~cmd[2].value_type_verified
    /\ cmd[3] = parsed[3]
    /\ writes = <<0, 0, 0>>

----------------------------------------------------------------------------
(* C14 *)

\* C14: Batch.run reads the stored status before each command.  An iteration that
\* reads Stopped executes nothing: no command row changes, no remote write is issued,
\* the stored batch is left as it is and the run returns; and an iteration that
\* executes a command, issues a write or keeps the run going has not read Stopped.
C14_CooperativeStop ==
    [][(run.pc = "loop" /\ run.queue # <<>> /\ RunCommandStep)
        => IF batch.status = "Stopped"
           THEN cmd' = cmd /\ writes' = writes /\ batch' = batch /\ run' = IdleRun
           ELSE run'.pc = "loop" => run'.queue = Tail(run.queue)]_vars

\* a run has returned on reading Stopped after its first command: the first command
\* is Done and written, the others were never started
C14_Witness ==
    /\ batch.status = "Stopped" /\ run.pc = "idle" /\ budget = 0
    /\ Len(cmd) = 3
    /\ cmd[1].status = "Done" /\ writes = <<1, 0, 0>>
    /\ cmd[2].status = "Initial" /\ cmd[3].status = "Initial"

----------------------------------------------------------------------------
(* C17 *)

\* C17: BatchCommand.run always returns to Batch.run, which goes on to its next
\* iteration or blocks the batch.  A command it finds Initial is left Done, Error or
\* Running, and Running exactly when it was folded into the merge group handed to the
\* next command; when it is left in Error (the verification of its value types, its
\* local mutation or a remote call failed) it carries a message, the label of its
\* tag or the message of the exception.  A command it finds in another status keeps
\* that status.
C17_NothingEscapes ==
    [][\A i \in DOMAIN cmd :
        Executes(i)
        => /\ IF is_error_status(cmd'[i]) /\ batch.block_on_errors
              THEN batch'.status = "Blocked" /\ run' = IdleRun
              ELSE run'.pc = "loop" /\ run'.queue = Tail(run.queue)
           /\ cmd[i].status # "Initial" => cmd'[i].status = cmd[i].status
           /\ cmd[i].status = "Initial"
                => /\ cmd'[i].status \in {"Done", "Error", "Running"}
                   /\ (cmd'[i].status = "Running")
                        = (run'.commands # <<>> /\ Head(run'.commands) = i)
                   /\ cmd'[i].status = "Error"
                        => /\ cmd'[i].message # NONE
                           /\ cmd'[i].message \in {cmd'[i].error, "exception"}]_vars

\* a run that went on after an exception outside the mapped ones: the property of the
\* first command does not exist, the command is Error with the exception's message and
\* no tag, the next command is Done
C17_Witness ==
    /\ ~batch.block_on_errors /\ batch.status = "Done"
    /\ Len(cmd) >= 2
    /\ typing[1] = "noprop"
    /\ cmd[1].status = "Error" /\ cmd[1].error = NONE /\ cmd[1].message = "exception"
    /\ cmd[2].status = "Done"

----------------------------------------------------------------------------
(* C18 *)

\* C18: when an invocation of Batch.run that went past its guard ends, whatever the
\* remote answered, the stored status of the batch is Done, Blocked, Stopped or
\* Initial: it is never left Running.
C18_RunSettlesBatch ==
    [][(run.pc \in {"authorize", "verify", "loop"} /\ run'.pc = "idle")
        => batch'.status \in {"Done", "Blocked", "Stopped", "Initial"}]_vars

----------------------------------------------------------------------------
(* C19 *)

\* the batch CREATE||LAST|P1|Q1 run with combining on has folded its create, and the
\* iteration for its second command gets every remote call answered
CreateThenLastWritten ==
    /\ Len(parsed) = 2
    /\ parsed[1].operation = "create_item"
    /\ parsed[2].operation = "set_statement" /\ parsed[2].entity = LAST
    /\ typing[2] = "match"
    /\ batch.combine_commands
    /\ run.commands = <<1>>
    /\ Executes(2) /\ RunCommand("ok", "ok")

\* C19 as stated: for CREATE||LAST|P1|Q1 with combining on, the create's write being
\* accepted, the first command ends Done with the created id as its response id, the
\* second ends Done with no response id, and one remote write is issued in total.
C19_Original ==
    [][CreateThenLastWritten
        => /\ cmd'[1].status = "Done" /\ cmd'[1].response_id = ItemIds[2]
           /\ cmd'[2].status = "Done" /\ cmd'[2].response_id = NONE
           /\ writes'[1] + writes'[2] = 1]_vars

\* C19 (amended): for CREATE||LAST|P1|Q1 with combining on, the single write is issued
\* by the second command with the create folded into it; when it is accepted both
\* commands end Done on the created item, the second with the created id as its
\* response id and the first with no response id.
C19_CreateThenLast ==
    [][CreateThenLastWritten
        => /\ cmd'[1].status = "Done" /\ cmd'[1].response_id = NONE
           /\ cmd'[2].status = "Done" /\ cmd'[2].response_id = ItemIds[2]
           /\ cmd'[1].entity = ItemIds[2] /\ cmd'[2].entity = ItemIds[2]
           /\ writes' = <<writes[1], writes[2] + 1>>
           /\ budget = MaxRequests => writes' = <<0, 1>>]_vars

\* the run of CREATE||LAST|P1|Q1 with combining on has finished with both commands
\* Done and one write, issued by the second
C19_Witness ==
    /\ Len(parsed) = 2
    /\ parsed[1].operation = "create_item" /\ parsed[2].entity = LAST
    /\ batch.combine_commands /\ batch.status = "Done"
    /\ cmd[1].status = "Done" /\ cmd[2].status = "Done"
    /\ cmd[2].response_id = ItemIds[2]
    /\ writes = <<0, 1>>

----------------------------------------------------------------------------
(* C20 *)

\* the tags of a write the remote rejected
RejectedWriteTags == {"api_user_error", "api_server_error"}

\* with combining on, the iteration for the last command of the group of a create and
\* the commands on LAST after it, the others folded, issues the group's write and the
\* command ends in Error
GroupWriteFails(a, b) ==
    /\ batch.combine_commands
    /\ IsCreateGroup(a, b)
    /\ SeqToSet(run.commands) = a..(b - 1)
    /\ Executes(b)
    /\ writes'[b] = writes[b] + 1
    /\ cmd'[b].status = "Error"

\* C20 as stated: when the single write of a CREATE + N LAST group fails, all N+1
\* commands end in Error, the first command of the group with the tag of the cause and
\* all the others with combining_failed.
C20_Original ==
    [][\A a, b \in DOMAIN cmd :
        GroupWriteFails(a, b)
        => /\ \A k \in a..b : cmd'[k].status = "Error"
           /\ cmd'[a].error \in RejectedWriteTags
           /\ \A k \in (a + 1)..b : cmd'[k].error = "combining_failed"]_vars

\* C20 (amended): when the single write of a CREATE + N LAST group fails, all N+1
\* commands end in Error, the last command of the group, which issued the write, with
\* the tag of the cause and all the others, the create included, with
\* combining_failed.
C20_GroupWriteFailure ==
    [][\A a, b \in DOMAIN cmd :
        GroupWriteFails(a, b)
        => /\ \A k \in a..b : cmd'[k].status = "Error"
           /\ cmd'[b].error \in RejectedWriteTags
           /\ \A k \in a..(b - 1) :
                 cmd'[k].error = "combining_failed" /\ writes'[k] = writes[k]]_vars

\* a create and two commands on LAST whose single write the remote answered with a
\* server error: the third command has the cause, the create and the second command
\* have combining_failed
C20_Witness ==
    /\ batch.combine_commands
    /\ Len(cmd) = 3 /\ IsCreateGroup(1, 3)
    /\ writes = <<0, 0, 1>>
    /\ cmd[3].status = "Error" /\ cmd[3].error = "api_server_error"
    /\ \A k \in {1, 2} : cmd[k].status = "Error" /\ cmd[k].error = "combining_failed"

----------------------------------------------------------------------------
(* C15 *)

\* C15: when the recovery at the start of the scheduler's process is over, before any
\* batch is run, the batch is not Running and none of its commands is Running.
C15_RecoveryLeavesNothingRunning ==
    [][(run.pc = "recovering" /\ run'.pc = "idle")
        => /\ batch'.status # "Running"
           /\ \A i \in DOMAIN cmd : cmd'[i].status # "Running"]_vars

----------------------------------------------------------------------------
(* C16 *)

\* the threads that are alive
AliveThreads == {t \in DOMAIN threads : threads[t].alive}

\* the threads inside batch.run()
RunningThreads == {t \in AliveThreads : threads[t].current # 0}

\* C16: no two threads of the scheduler are alive for the same owner; a thread runs
\* batches of its owner only, one at a time, so that at most one batch of an owner is
\* being run and no batch is being run by two threads.
C16_OneThreadPerOwner ==
    /\ \A t1, t2 \in AliveThreads : threads[t1].user = threads[t2].user => t1 = t2
    /\ \A t \in RunningThreads :
          /\ store[threads[t].current].user = threads[t].user
          /\ \A k \in DOMAIN threads[t].queue :
                store[threads[t].queue[k]].user = threads[t].user
    /\ \A t1, t2 \in RunningThreads :
          store[threads[t1].current].user = store[threads[t2].current].user => t1 = t2
    /\ \A t1, t2 \in RunningThreads : threads[t1].current = threads[t2].current => t1 = t2

\* the thread of an owner is running a batch while another batch of the same owner is
\* Initial and the loop of handle is about to look at that owner; the other owner's
\* thread is running too
C16_Witness ==
    \E t1, t2 \in RunningThreads :
        /\ threads[t1].user # threads[t2].user
        /\ handle.pc = "users" /\ threads[t1].user \in handle.users
        /\ threads[t1].queue = <<>>
        /\ \E b \in initial_batches : store[b].user = threads[t1].user

----------------------------------------------------------------------------
(* C21 *)

\* C21: when Batch.run, past its guard, gets a profile that reports the owner as
\* blocked, it stores Blocked with a message and returns: no command row changes and
\* no remote write is issued.
C21_BlockedOwner ==
    [][(run.pc = "authorize" /\ RunAuthorize("owner_blocked"))
        => /\ batch'.status = "Blocked"
           /\ batch'.message \notin {NONE, "started"}
           /\ cmd' = cmd
           /\ writes' = writes
           /\ run' = IdleRun]_vars

----------------------------------------------------------------------------
(* C22 *)

\* the tag the taxonomy of the specification names for a rejected value type; the
\* Error enumeration of BatchCommand has no such member
INVALID_VALUE_TYPE == "invalid_value_type"

\* the value type of command i is rejected at execution: BatchCommand.run starts the
\* command, not verified yet, and the remote's answer for it is a mismatch
RejectedAtExecution(i) ==
    /\ StartsExecuting(i)
    /\ should_verify_value_types(cmd[i]) /\ typing[i] = "mismatch"

\* C22: a command whose value type is rejected by the verification of value types,
\* before the execution or at execution, becomes Error with the tag InvalidValueType.
C22_InvalidValueTypeTag ==
    [][\A i \in DOMAIN cmd :
        (FindsMismatch(i) \/ RejectedAtExecution(i))
        => /\ cmd'[i].status = "Error"
           /\ cmd'[i].error = INVALID_VALUE_TYPE]_vars

----------------------------------------------------------------------------
(* C23 *)

\* the entity id of command c once LAST is resolved with the run's last id
ResolvedId(c) == update_last_id(c, run.last_id).entity

\* the next command of the iteration in progress, 0 when there is none
Upcoming == IF Len(run.queue) > 1 THEN run.queue[2] ELSE 0

\* the rule of C23 for the current command a and the next command b
MayShareWrite(a, b) ==
    /\ batch.combine_commands
    /\ cmd[a].operation \in CombinableOperations
    /\ b # 0
    /\ cmd[b].operation \in CombinableOperations
    /\ cmd[b].operation # "create_item"
    /\ \/ cmd[a].operation = "create_item" /\ cmd[b].entity = LAST
       \/ ResolvedId(cmd[a]) = ResolvedId(cmd[b])

\* C23: in every iteration of the execution loop check_combination marks the current
\* command as combinable with the next one exactly when the batch combines commands,
\* both operations are combinable, the next is not a create, and either the current
\* is a create and the next is on LAST or their resolved entity ids are equal; a
\* command so marked that starts executing issues no write and is not Done after the
\* iteration, and one not so marked that becomes Done has issued one write.
C23_Combinable ==
    [][\A i \in DOMAIN cmd :
        Executes(i)
        => /\ check_combination(cmd, i, Upcoming, batch.combine_commands)
                <=> MayShareWrite(i, Upcoming)
           /\ (MayShareWrite(i, Upcoming) /\ cmd[i].status = "Initial")
                => /\ writes' = writes
                   /\ cmd'[i].status \in {"Running", "Error"}
           /\ (~MayShareWrite(i, Upcoming) /\ cmd[i].status = "Initial"
                 /\ cmd'[i].status = "Done")
                => writes'[i] = writes[i] + 1]_vars

\* a create marked as combinable with the command on LAST after it was folded, with no
\* write, while the command after those two, on another entity, is still to run
C23_Witness ==
    /\ batch.combine_commands
    /\ run.pc = "loop" /\ run.queue = <<2, 3>> /\ run.commands = <<1>>
    /\ parsed[1].operation = "create_item" /\ parsed[2].entity = LAST
    /\ parsed[3].entity = "Q1" /\ parsed[3].operation \in CombinableOperations
    /\ cmd[1].status = "Running"
    /\ ~check_combination(cmd, 2, 3, TRUE)
    /\ writes = <<0, 0, 0>>

----------------------------------------------------------------------------
(* C24 *)

\* the verification before the execution runs
Verifies == run.pc = "verify" /\ RunVerify

\* C24: a command whose value_type_verified flag is set is left as it is by the
\* verification before the execution; when it starts executing and the remote accepts
\* every call, it is sent whatever the remote would answer about its value type: it
\* becomes Done with one write, or is folded into its group.  A command the
\* verification before the execution marks as verified is otherwise unchanged, and
\* when that verification ends without blocking every command whose value type the
\* remote accepts is marked, its status unchanged.
C24_VerifiedOnce ==
    [][/\ Verifies
          => \A i \in DOMAIN cmd :
                /\ cmd[i].value_type_verified => cmd'[i] = cmd[i]
                /\ (~cmd[i].value_type_verified /\ cmd'[i].value_type_verified)
                      => cmd'[i] = [cmd[i] EXCEPT !.value_type_verified = TRUE]
                /\ (run'.pc = "loop" /\ typing[i] = "match")
                      => /\ cmd'[i].value_type_verified
                         /\ cmd'[i].status = cmd[i].status
       /\ \A i \in DOMAIN cmd :
             (/\ cmd[i].value_type_verified
              /\ StartsExecuting(i)
              /\ RunCommand("ok", "ok")
              /\ ResolvedId(cmd[i]) # LAST)
             => /\ cmd'[i].status \in {"Done", "Running"}
                /\ cmd'[i].status = "Done" => writes'[i] = writes[i] + 1
                /\ cmd'[i].status = "Running" => run'.commands # <<>> /\ run'.commands[1] = i
      ]_vars

\* a create and a statement on LAST whose value type the remote would reject, stored
\* as verified: both are Done, each by a write of its own
C24_Witness ==
    /\ Len(cmd) = 2
    /\ parsed[1].operation = "create_item"
    /\ typing[2] = "mismatch" /\ cmd[2].value_type_verified
    /\ cmd[1].status = "Done" /\ cmd[2].status = "Done"
    /\ cmd[2].entity = cmd[1].response_id
    /\ writes = <<1, 1>>
    /\ batch.status = "Done"

----------------------------------------------------------------------------
(* C25 *)

\* command i was parsed with LAST as its entity id and is stored with a concrete id
IsResolved(i) == parsed[i].entity = LAST /\ cmd[i].entity \notin {LAST, NONE}

\* C25: once a command on LAST is stored with a concrete entity id, no step (of a
\* run, of the propagation from its group, of a stop, restart or rerun) stores LAST or
\* another id on it.
C25_ResolvedStays ==
    [][\A i \in DOMAIN cmd : IsResolved(i) => cmd'[i].entity = cmd[i].entity]_vars

\* a command on LAST resolved to the item of the create before it failed in the first
\* run and again in the run after the rerun, in which the first create of the batch,
\* failed before, made another item: the command is still on the item it was resolved to
C25_Witness ==
    /\ Len(cmd) = 3
    /\ parsed[1].operation = "create_item" /\ parsed[2].operation = "create_item"
    /\ parsed[3].entity = LAST
    /\ cmd[1].status = "Done" /\ cmd[2].status = "Done"
    /\ writes = <<2, 1, 2>>
    /\ cmd[3].entity = cmd[2].response_id /\ cmd[3].entity # cmd[1].response_id
    /\ cmd[3].status = "Error"
    /\ batch.status = "Done" /\ budget = 0

----------------------------------------------------------------------------
(* C26 *)

\* C26: whenever the stored status of the batch is Done, every one of its commands is
\* Done or Error, after any sequence of runs, stops, restarts and reruns.
C26_DoneBatchIsSettled ==
    batch.status = "Done" => \A i \in DOMAIN cmd : cmd[i].status \in {"Done", "Error"}

----------------------------------------------------------------------------
(* C27 *)

\* the creates before command i, and the nearest of them (0 when there is none)
CreatesBefore(i) == {j \in 1..(i - 1) : parsed[j].operation = "create_item"}

PrecedingCreate(i) ==
    IF CreatesBefore(i) = {} THEN 0
    ELSE CHOOSE j \in CreatesBefore(i) : \A k \in CreatesBefore(i) : k <= j

\* C27: in a batch that does not combine commands, a command on LAST that starts
\* executing when the create before it is Done, in the same run or, after a stop and a
\* restart or a crash and a recovery, in a later one, is executed against the item of
\* that create, as in one uninterrupted run; it becomes Done when the remote accepts
\* its value type and every call.
C27_ResumeKeepsLast ==
    [][\A i \in DOMAIN cmd :
        (/\ ~batch.combine_commands
         /\ parsed[i].entity = LAST
         /\ PrecedingCreate(i) # 0
         /\ cmd[PrecedingCreate(i)].status = "Done"
         /\ StartsExecuting(i))
        => /\ cmd'[i].entity = cmd[PrecedingCreate(i)].entity
           /\ (typing[i] = "match" /\ RunCommand("ok", "ok")) => cmd'[i].status = "Done"]_vars

----------------------------------------------------------------------------
(* C28 *)

\* the batch is one whose commands are all Done after a run that does not combine
\* them, when the remote accepts every call: every value type is accepted, and every
\* command on LAST has a create before it
AllDoneUncombined ==
    /\ \A i \in DOMAIN parsed : typing[i] = "match"
    /\ \A i \in DOMAIN parsed : parsed[i].entity = LAST => PrecedingCreate(i) # 0

\* the remote has accepted every call of the run so far
NothingFailed == \A j \in DOMAIN cmd : cmd[j].status # "Error"

\* C28: in a batch that combines commands and whose commands would all be Done
\* without combining, as long as the remote accepts every call no command becomes
\* Error, a command on LAST that becomes Done is on the item of the create before it,
\* and when the run ends every command is Done.
C28_CombiningKeepsResults ==
    [][/\ \A i \in DOMAIN cmd :
             (/\ batch.combine_commands /\ AllDoneUncombined /\ NothingFailed
              /\ StartsExecuting(i)
              /\ RunCommand("ok", "ok"))
             => /\ cmd'[i].status # "Error"
                /\ (parsed[i].entity = LAST /\ cmd'[i].status = "Done")
                      => cmd'[i].entity = cmd'[PrecedingCreate(i)].entity
       /\ (/\ batch.combine_commands /\ AllDoneUncombined /\ NothingFailed
           /\ run.pc = "loop" /\ run.queue = <<>> /\ RunFinish)
          => \A i \in DOMAIN cmd : cmd'[i].status = "Done"
      ]_vars

----------------------------------------------------------------------------
(* C29 *)

\* C29: once a stop has stored Stopped, the stored status of the batch stays Stopped
\* until a restart: no step of a run that loaded the batch earlier writes over it.
C29_StoppedUntilRestart ==
    [][batch.status = "Stopped" => (batch'.status = "Stopped" \/ Restart)]_vars

----------------------------------------------------------------------------
(* C30 *)

\* C30: the remote accepts at most one write of each command, whatever runs, stops,
\* restarts, crashes and recoveries the batch goes through.
C30_OneAcceptedWrite == \A i \in DOMAIN cmd : accepted[i] <= 1

----------------------------------------------------------------------------
(* C31 *)

\* the scheduler can always start one more thread
CanStartThreads == Len(threads) < MaxThreads

\* C31: under a scheduler that keeps running and can always start a thread, with no
\* stop and a remote that always answers, every batch stored Initial is eventually
\* Done or Blocked.
C31_InitialBatchesSettle ==
    []CanStartThreads
        => \A b \in 1..MaxBatches :
              (store[b].status = "Initial") ~> (store[b].status \in {"Done", "Blocked"})

----------------------------------------------------------------------------
(* C32 *)

\* C32: whenever the batch is Blocked with the message that names command i as the
\* one that blocked it, command i is Error.
C32_BlockingCommandFailed ==
    (batch.status = "Blocked" /\ batch.message = "blocked_by_command")
        => cmd[batch.blocked_by].status = "Error"

----------------------------------------------------------------------------
(* C33 *)

\* C33: a command that is Done carries no error tag, also when it failed in an
\* earlier run and succeeded after a rerun, by its own write or as a folded member of
\* a group.
C33_DoneWithoutTag ==
    \A i \in DOMAIN cmd : cmd[i].status = "Done" => cmd[i].error = NONE

----------------------------------------------------------------------------
(* C34 .. C38: the applications of commands to an entity document *)

Applied == DOMAIN patching.log

\* the document as application k left it
AfterApplication(k) ==
    IF k = Len(patching.log) THEN patching.entity ELSE patching.log[k + 1].before

Least(S) == CHOOSE i \in S : \A j \in S : i <= j

\* the statements that application k met with the value of its command
StatementsWithValue(k) ==
    LET a == patching.log[k]
    IN {i \in DOMAIN a.before.statements : a.before.statements[i].value = a.command.value}

\* the first of them, 0 when there is none
MatchedStatement(k) ==
    IF StatementsWithValue(k) = {} THEN 0 ELSE Least(StatementsWithValue(k))

CommandParts(c) == UNION {SeqToSet(c.references[r]) : r \in DOMAIN c.references}

\* the qualifiers of the matched statement that the command of application k names
MatchingQualifiers(k) ==
    LET a == patching.log[k]
        at == MatchedStatement(k)
    IN IF at = 0 THEN {}
       ELSE {i \in DOMAIN a.before.statements[at].qualifiers :
                a.before.statements[at].qualifiers[i] \in SeqToSet(a.command.qualifiers)}

\* the references of the matched statement with a part that the command names
ReferencesWithMatch(k) ==
    LET a == patching.log[k]
        at == MatchedStatement(k)
    IN IF at = 0 THEN {}
       ELSE {i \in DOMAIN a.before.statements[at].references :
                \E j \in DOMAIN a.before.statements[at].references[i] :
                    a.before.statements[at].references[i][j] \in CommandParts(a.command)}

\* how many parts of the matched statement the command names
MatchingParts(k) ==
    LET a == patching.log[k]
        at == MatchedStatement(k)
    IN IF at = 0 THEN {}
       ELSE {ij \in (1..Len(a.before.statements[at].references)) \X (1..2) :
                /\ ij[2] \in DOMAIN a.before.statements[at].references[ij[1]]
                /\ a.before.statements[at].references[ij[1]][ij[2]] \in CommandParts(a.command)}

Removals ==
    {k \in Applied :
        patching.log[k].command.operation \in {"remove_qualifier", "remove_reference"}}

\* what a removal that names nothing the statement has is answered with
NothingToRemove(c) ==
    IF c.qualifiers # <<>> THEN "NoQualifiers" ELSE "NoReferenceParts"

\* one removal: the other statements stay, the first matching qualifier goes, one
\* matching part of the first reference with one goes, no reference goes
RemovesOneMatch(k) ==
    LET a == patching.log[k]
        c == a.command
        at == MatchedStatement(k)
        after == AfterApplication(k)
        quals == MatchingQualifiers(k)
        refs == ReferencesWithMatch(k)
    IN /\ Len(after.statements) = Len(a.before.statements)
       /\ \A i \in DOMAIN a.before.statements :
             i # at => after.statements[i] = a.before.statements[i]
       /\ (c.qualifiers # <<>> /\ quals = {}) => a.raised = "NoQualifiers"
       /\ (c.references # <<>> /\ refs = {}) => a.raised \in {"NoQualifiers", "NoReferenceParts"}
       /\ (c.qualifiers = <<>> /\ c.references # <<>> /\ refs = {}) => a.raised = "NoReferenceParts"
       /\ ((c.qualifiers = <<>> \/ quals # {}) /\ (c.references = <<>> \/ refs # {}))
             => a.raised = "ok"
       /\ at = 0 => a.raised = NothingToRemove(c)
       /\ at # 0 =>
             LET st == a.before.statements[at]
                 left == after.statements[at]
             IN /\ left.value = st.value
                /\ left.rank = st.rank
                /\ IF quals = {}
                   THEN left.qualifiers = st.qualifiers
                   ELSE /\ Len(left.qualifiers) = Len(st.qualifiers) - 1
                        /\ left.qualifiers = pop(st.qualifiers, Least(quals))
                /\ Len(left.references) = Len(st.references)
                /\ \A i \in DOMAIN st.references :
                      IF refs # {} /\ i = Least(refs)
                      THEN \E j \in DOMAIN st.references[i] :
                              /\ st.references[i][j] \in CommandParts(c)
                              /\ left.references[i] = pop(st.references[i], j)
                      ELSE left.references[i] = st.references[i]

\* the same removal twice in a row, the first on a statement with a single match
\* for each thing it names: the second is refused
SecondRemovalFails(k) ==
    LET a == patching.log[k]
        c == a.command
    IN (/\ k + 1 \in Applied
        /\ patching.log[k + 1].command = c
        /\ a.raised = "ok"
        /\ c.qualifiers # <<>> => Cardinality(MatchingQualifiers(k)) = 1
        /\ c.references # <<>> => Cardinality(MatchingParts(k)) = 1)
           => patching.log[k + 1].raised = NothingToRemove(c)

\* C34: remove_qualifier and remove_reference take exactly one matching qualifier
\* and one matching reference part away, the part from the first reference with
\* one, and keep a reference left without parts; they raise NoQualifiers or
\* NoReferenceParts when nothing matches, so that the second of two equal removals
\* on a single match fails, and so does a removal whose value no statement has.
C34_RemovesOneMatch ==
    \A k \in Removals : RemovesOneMatch(k) /\ SecondRemovalFails(k)

\* a reference part was removed, its reference stayed without parts, and the same
\* removal was refused the second time although the statement is still there
C34_Witness ==
    \E k \in Removals :
        /\ k + 1 \in Removals
        /\ patching.log[k].command.operation = "remove_reference"
        /\ patching.log[k + 1].command = patching.log[k].command
        /\ patching.log[k].raised = "ok"
        /\ patching.log[k + 1].raised = "NoReferenceParts"
        /\ MatchedStatement(k + 1) # 0
        /\ <<>> \in SeqToSet(patching.log[k + 1].before.statements[MatchedStatement(k + 1)].references)

\* C35: remove_statement_by_value takes the first statement with the command's
\* value away and leaves the others in their order; it raises
\* NoStatementsForThatProperty when the property has no statement, and
\* NoStatementsWithThatValue when it has statements but none with the value.
C35_RemovesFirstStatementWithValue ==
    \A k \in Applied :
        patching.log[k].command.operation = "remove_statement_by_value" =>
            LET a == patching.log[k]
                after == AfterApplication(k)
                at == MatchedStatement(k)
            IN IF a.before.statements = <<>>
               THEN a.raised = "NoStatementsForThatProperty" /\ after = a.before
               ELSE IF at = 0
               THEN a.raised = "NoStatementsWithThatValue" /\ after = a.before
               ELSE /\ a.raised = "ok"
                    /\ Len(after.statements) = Len(a.before.statements) - 1
                    /\ \A i \in DOMAIN after.statements :
                          after.statements[i] =
                              IF i < at THEN a.before.statements[i]
                              ELSE a.before.statements[i + 1]

\* a statement was removed by its value from a property with two statements of
\* that value, and a later one of them is in the document
C35_Witness ==
    \E k \in Applied :
        /\ patching.log[k].command.operation = "remove_statement_by_value"
        /\ patching.log[k].raised = "ok"
        /\ Cardinality(StatementsWithValue(k)) = 2
        /\ MatchedStatement(k) < Len(patching.log[k].before.statements)
        /\ \E i \in DOMAIN AfterApplication(k).statements :
              AfterApplication(k).statements[i].value = patching.log[k].command.value

\* the command gives nothing to write on a statement
IsBare(c) == c.qualifiers = <<>> /\ c.references = <<>> /\ c.rank = NONE

\* C36: a set_statement whose value a statement of the property has writes on the
\* first such statement and adds none, and leaves the document as it was when it has
\* no qualifiers, references or rank; a create_statement, and a set_statement whose
\* value no statement has, append exactly one statement.
C36_SetModifiesCreateAppends ==
    \A k \in Applied :
        patching.log[k].command.operation \in {"set_statement", "create_statement"} =>
            LET a == patching.log[k]
                c == a.command
                after == AfterApplication(k)
                at == MatchedStatement(k)
                n == Len(a.before.statements)
            IN /\ a.raised = "ok"
               /\ IF c.operation = "set_statement" /\ at # 0
                  THEN /\ Len(after.statements) = n
                       /\ \A i \in 1..n : i # at => after.statements[i] = a.before.statements[i]
                       /\ after.statements[at].value = c.value
                       /\ IsBare(c) => after = a.before
                  ELSE /\ Len(after.statements) = n + 1
                       /\ SubSeq(after.statements, 1, n) = a.before.statements
                       /\ after.statements[n + 1].value = c.value

\* a set_statement with a qualifier met two statements with its value and wrote on
\* the first of them, and a create_statement with a value the property has added one
C36_Witness ==
    /\ Len(patching.log) = 2
    /\ patching.log[1].command.operation = "set_statement"
    /\ patching.log[1].command.qualifiers # <<>>
    /\ Cardinality(StatementsWithValue(1)) = 2
    /\ AfterApplication(1).statements[MatchedStatement(1)]
          # patching.log[1].before.statements[MatchedStatement(1)]
    /\ patching.log[2].command.operation = "create_statement"
    /\ MatchedStatement(2) # 0
    /\ Len(patching.entity.statements) = Len(patching.log[2].before.statements) + 1

\* C37: a set_statement whose reference is on the matched statement already, with
\* exactly the same parts, adds no reference; one whose reference differs in a part,
\* or holds only some of the parts of a reference of the statement, appends it as
\* one new reference.
C37_ReferenceAddedOnce ==
    \A k \in Applied :
        LET a == patching.log[k]
            c == a.command
            at == MatchedStatement(k)
        IN (c.operation = "set_statement" /\ at # 0 /\ c.references # <<>>) =>
              LET had == a.before.statements[at].references
                  has == AfterApplication(k).statements[at].references
              IN IF c.references[1] \in SeqToSet(had)
                 THEN has = had
                 ELSE has = Append(had, c.references[1])

\* C38: an application that raised NoStatementsForThatProperty,
\* NoStatementsWithThatValue, NoQualifiers or NoReferenceParts left the document as
\* it met it: no statement, qualifier, reference part or property key was added or
\* removed.
C38_FailureLeavesDocument ==
    \A k \in Applied :
        patching.log[k].raised # "ok" => AfterApplication(k) = patching.log[k].before

----------------------------------------------------------------------------
(* C39 *)

\* C39: for every amount a, tolerance t and unit, the tolerance form a~t and the
\* bounds form a[a-t,a+t] are parsed to the same quantity: the same signed amount,
\* lowerBound, upperBound and unit.
C39_ToleranceIsBounds ==
    (parsing.tolerance # <<>> /\ parsing.bounds # <<>>)
        => parsing.tolerance = parsing.bounds

====
